---------------------------- MODULE Spec2Model ----------------------------
(***************************************************************************)
(* A model of the CP2K run supervisor (bin/run_cp2k.py), its live          *)
(* telemetry extractor, the replay extractor of tools/md_live_plot.py and  *)
(* the snapshot file read by bin/streamlit_dashboard.py.                   *)
(*                                                                         *)
(* Numbers.  A Python float is modelled in thousandths: Fin(-10500) is     *)
(* -10.5.  NaN and Inf are the floats float("nan") and float("inf").       *)
(* IntV(n) is the Python int n.  None is Python's None (also: key absent). *)
(*                                                                         *)
(* Lines.  A line of output is a record                                    *)
(*   pre  : how the text begins (" MD| ***", " MD|", "MD|", "other",       *)
(*          "blank"),                                                      *)
(*   keys : the keyword substrings found in the lower-cased text,          *)
(*   toks : the whitespace-separated tokens that are not keywords.         *)
(* A token has a class: "num" (float() parses it), "numD" (Fortran D       *)
(* exponent, 1.5D+02), "numd" (lower-case d exponent, 1.5d+02), "nan",     *)
(* "inf", or "word".                                                       *)
(***************************************************************************)
EXTENDS Integers, Sequences, FiniteSets, TLC

VARIABLES
    \* RunState (bin/run_cp2k.py)
    tail, metrics, blocks, status, return_code, pid, done,
    cancel_requested, last_step, current_block, state_file,
    \* the live extractor's driver: the lines fed so far, and whether
    \* parse_line_for_metrics raised
    fed, raised,
    \* md_block_stream (tools/md_live_plot.py): the generator's locals, the
    \* records it has yielded, whether it raised, its follow argument and
    \* whether it has returned
    current, inside_md, yielded, s_raised, follow, eof,
    \* the supervisor (main, run_cp2k_process, its reader thread):
    \*   mode      the dashboard mode main settled on
    \*   pc        where each thread is
    \*   proc      the supervised child: its state, exit code, the lines
    \*             in the pipe and all the lines it has written
    \*   log       the lines written to the log file
    \*   signals   the signals run_cp2k_process has sent to the child
    \*   cur_line  the reader's raw_line
    \*   runner_rc run_cp2k_process's local return_code
    \*   finalize_calls  how many times finalize() was called
    \*   cancel_log      for each request_cancel() call, the child's state then
    mode, pc, proc, log, signals, cur_line, runner_rc, finalize_calls, cancel_log,
    \* the snapshot file: writer is each thread's write_snapshot() call in
    \* progress, fs the files named state.json ("file") and state.json.tmp
    \* ("tmp"), seen what the external renderer last loaded
    writer, fs, seen,
    \* the RunState's lock and the calls made on it by a mutating thread and
    \* a snapshot-taking thread:
    \*   lock   the thread inside "with self.lock", or "free"
    \*   op     the mutating thread's call in progress
    \*   snaps  the snapshots snapshot() has returned, each with the
    \*          RunState's content at the time of the call
    lock, op, snaps,
    \* the last call a driver made on the RunState, with its arguments and
    \* the store before it
    call,
    \* main and the external renderer:
    \*   env   what main finds: its arguments, the files and programs that
    \*         exist, the terminal, the child's exit code
    \*   outcome  what main has done: the log file, the processes spawned,
    \*         how it ended
    \*   rend  the renderer script: where it is and what it shows
    env, outcome, rend,
    \* the clock write_snapshot reads: now is time.time() in tenths of a
    \* second, last_snapshot_write the RunState's _last_snapshot_write
    now, last_snapshot_write

liveVars == <<metrics, blocks, last_step, current_block, fed, raised>>
storeVars == <<tail, status, return_code, pid, done, cancel_requested, state_file>>

streamVars == <<current, inside_md, yielded, s_raised, follow, eof>>

runVars == <<mode, pc, proc, log, signals, cur_line, runner_rc, finalize_calls,
             cancel_log>>
\* runVars without pc
runRest == <<mode, proc, log, signals, cur_line, runner_rc, finalize_calls,
             cancel_log>>
fileVars == <<writer, fs, seen>>

clockVars == <<now, last_snapshot_write>>

outerVars == <<env, outcome, rend, clockVars>>

extVars == <<lock, op, snaps, call, outerVars>>

vars == <<liveVars, storeVars, streamVars, runVars, fileVars, extVars>>

---------------------------------------------------------------------------
(* Bounds *)

MaxLines == 5
MaxStreamLines == 4
MaxChildLines == 3
MaxCancelCalls == 2
PipeCap == 2
Chunks == 2

---------------------------------------------------------------------------
(* Values *)

None == [t |-> "none", v |-> 0]
Fin(n) == [t |-> "fin", v |-> n]
IntV(n) == [t |-> "int", v |-> n]
NaN == [t |-> "nan", v |-> 0]
Inf == [t |-> "inf", v |-> 0]

\* a + b on Python floats
FloatAdd(a, b) ==
    IF a.t = "nan" \/ b.t = "nan" THEN NaN
    ELSE IF a.t = "inf" \/ b.t = "inf" THEN Inf
    ELSE Fin(a.v + b.v)

\* round(x) on a finite float, in units: round half to even
RoundHalfEven(milli) ==
    LET q == milli \div 1000
        r == milli % 1000
    IN  IF r < 500 THEN q
        ELSE IF r > 500 THEN q + 1
        ELSE IF q % 2 = 0 THEN q ELSE q + 1

\* dict helpers: a dict is a function from a finite set of keys
EmptyDict == << >>
Get(d, k) == IF k \in DOMAIN d THEN d[k] ELSE None
Put(d, k, v) == [x \in (DOMAIN d) \cup {k} |-> IF x = k THEN v ELSE d[x]]
\* **values with the None values skipped, as the setters do
PutIfNotNone(d, k, v) == IF v = None THEN d ELSE Put(d, k, v)

\* Optional[dict]: << >> is None, <<d>> is the dict d
NoBlock == << >>
Some(d) == <<d>>

---------------------------------------------------------------------------
(* Tokens and lines *)

Num(n) == [cls |-> "num", v |-> n]
NumD(n) == [cls |-> "numD", v |-> n]
Numd(n) == [cls |-> "numd", v |-> n]
TokNan == [cls |-> "nan", v |-> 0]
TokInf == [cls |-> "inf", v |-> 0]
Word == [cls |-> "word", v |-> 0]

Line(pre, keys, toks) == [pre |-> pre, keys |-> keys, toks |-> toks]

\* float(token.replace("D", "E")) succeeds
_is_float(tok) == tok.cls \in {"num", "numD", "nan", "inf"}

_to_float(tok) ==
    IF tok.cls = "nan" THEN NaN
    ELSE IF tok.cls = "inf" THEN Inf
    ELSE Fin(tok.v)

\* numbers = [_to_float(tok) for tok in text.split() if _is_float(tok)]
Numbers(line) ==
    LET s == SelectSeq(line.toks, _is_float)
    IN  [i \in 1..Len(s) |-> _to_float(s[i])]

First(nums) == IF Len(nums) > 0 THEN nums[1] ELSE None
Second(nums) == IF Len(nums) > 1 THEN nums[2] ELSE None
Last(nums) == IF Len(nums) > 0 THEN nums[Len(nums)] ELSE None

---------------------------------------------------------------------------
(* MetricSeries *)

SeriesKeys ==
    {"step", "time_fs", "conserved_energy", "cpu_time_per_step",
     "cpu_time_per_step_avg", "energy_drift_inst", "energy_drift_avg",
     "potential_inst", "potential_avg", "kinetic_inst", "kinetic_avg",
     "temperature_inst", "temperature_avg", "total_energy", "total_energy_avg"}

EmptyMetrics == [k \in SeriesKeys |-> << >>]

\* an add_block that appends to the step series only
add_blockStepOnly(m, block) == [m EXCEPT !["step"] = Append(@, Get(block, "step"))]

\* MetricSeries.add_block: one entry appended to every series
add_block(m, block) == [k \in SeriesKeys |-> Append(m[k], Get(block, k))]

\* an amendment that leaves the series alone
_update_metric_valueSkipped(m, key, index, value) == m

\* series[index] = value for the mapped keys ("step" is not one of them);
\* index is 1-based here
_update_metric_value(m, key, index, value) ==
    IF value = None \/ key \notin (SeriesKeys \ {"step"}) THEN m
    ELSE IF index <= Len(m[key])
         THEN [m EXCEPT ![key] = [@ EXCEPT ![index] = value]]
         ELSE m

---------------------------------------------------------------------------
(* RunState: the open record and the finalized records.  A store is the    *)
(* record [current_block, blocks, metrics, last_step].                     *)

Store(cb, bl, m, ls) ==
    [current_block |-> cb, blocks |-> bl, metrics |-> m, last_step |-> ls]

is_block_open(st) == st.current_block # NoBlock

start_block(st) == [st EXCEPT !.current_block = Some(EmptyDict)]

\* set_block_values(k1=v1, k2=v2); v2 = None when only one is passed
set_block_values(st, k1, v1, k2, v2) ==
    LET cur == IF st.current_block = NoBlock THEN EmptyDict
               ELSE st.current_block[1]
    IN  [st EXCEPT !.current_block =
            Some(PutIfNotNone(PutIfNotNone(cur, k1, v1), k2, v2))]

\* a finalize step that derives the instantaneous total only
DeriveTotalsInstOnly(block) ==
    LET potential == Get(block, "potential_inst")
        kinetic == Get(block, "kinetic_inst")
    IN  IF Get(block, "total_energy") = None /\ potential # None /\ kinetic # None
        THEN Put(block, "total_energy", FloatAdd(potential, kinetic))
        ELSE block

\* a derivation that sets the totals whenever their operands are there
DeriveTotalsOverwriting(block) ==
    LET b1 == IF Get(block, "potential_inst") # None /\ Get(block, "kinetic_inst") # None
              THEN Put(block, "total_energy",
                       FloatAdd(Get(block, "potential_inst"), Get(block, "kinetic_inst")))
              ELSE block
    IN  IF Get(b1, "potential_avg") # None /\ Get(b1, "kinetic_avg") # None
        THEN Put(b1, "total_energy_avg",
                 FloatAdd(Get(b1, "potential_avg"), Get(b1, "kinetic_avg")))
        ELSE b1

\* the derived totals of finalize_block
DeriveTotals(block) ==
    LET potential == Get(block, "potential_inst")
        kinetic == Get(block, "kinetic_inst")
        b1 == IF Get(block, "total_energy") = None /\ potential # None
                 /\ kinetic # None
              THEN Put(block, "total_energy", FloatAdd(potential, kinetic))
              ELSE block
        potential_avg == Get(b1, "potential_avg")
        kinetic_avg == Get(b1, "kinetic_avg")
    IN  IF Get(b1, "total_energy_avg") = None /\ potential_avg # None
           /\ kinetic_avg # None
        THEN Put(b1, "total_energy_avg", FloatAdd(potential_avg, kinetic_avg))
        ELSE b1

\* not self._current_block or "step" not in self._current_block
Discarded(st) ==
    \/ st.current_block = NoBlock
    \/ st.current_block[1] = EmptyDict
    \/ "step" \notin DOMAIN st.current_block[1]

finalize_block(st) ==
    IF Discarded(st) THEN [st EXCEPT !.current_block = NoBlock]
    ELSE LET block == DeriveTotals(st.current_block[1])
         IN  Store(NoBlock, Append(st.blocks, block),
                   add_block(st.metrics, block), Some(block["step"].v))

\* update_latest_block(total_energy=value), value not None
\* an amendment that puts the new field in place of the record
update_latest_blockReplacing(st, key, value) ==
    IF st.current_block = NoBlock /\ st.blocks # << >> /\ value # None
    THEN [st EXCEPT !.blocks[Len(st.blocks)] = Put(EmptyDict, key, value)]
    ELSE st

update_latest_block(st, key, value) ==
    IF st.current_block # NoBlock
    THEN [st EXCEPT !.current_block = Some(PutIfNotNone(@[1], key, value))]
    ELSE IF st.blocks # << >>
    THEN LET n == Len(st.blocks)
         IN  IF value = None THEN st
             ELSE [st EXCEPT !.blocks[n] = Put(@, key, value),
                             !.metrics = _update_metric_value(@, key, n, value)]
    ELSE st

---------------------------------------------------------------------------
(* parse_line_for_metrics(line, state): the result is the store after the  *)
(* call, whether the call raised, and whether it called write_snapshot().  *)

Outcome(st, r, w) == [st |-> st, raised |-> r, wrote |-> w]

StartsWithMD(line) == line.pre \in {" MD|", " MD| ***"}
StartsWithMDStars(line) == line.pre = " MD| ***"

\* int(round(value)) raises ValueError on nan and OverflowError on inf
IntRoundRaises(value) == value.t \in {"nan", "inf"}

\* the field keys of the elif chain, in the order the code tests them, with
\* the fields they set
FieldChain ==
    << <<"cpu time per md step", "cpu_time_per_step", "cpu_time_per_step_avg">>,
       <<"energy drift per atom", "energy_drift_inst", "energy_drift_avg">>,
       <<"potential energy", "potential_inst", "potential_avg">>,
       <<"kinetic energy", "kinetic_inst", "kinetic_avg">>,
       <<"temperature", "temperature_inst", "temperature_avg">> >>

\* the two-valued branches of the chain, from entry i on
RECURSIVE PairBranches(_, _, _)
PairBranches(line, st, i) ==
    IF i > Len(FieldChain) THEN st
    ELSE IF FieldChain[i][1] \in line.keys
    THEN set_block_values(st, FieldChain[i][2], First(Numbers(line)),
                          FieldChain[i][3], Second(Numbers(line)))
    ELSE PairBranches(line, st, i + 1)

\* the branches of an " MD|" line inside an open block
BlockLine(line, st) ==
    LET numbers == Numbers(line)
    IN  IF "step number" \in line.keys
        THEN IF Last(numbers) = None THEN Outcome(st, FALSE, TRUE)
             ELSE IF IntRoundRaises(Last(numbers)) THEN Outcome(st, TRUE, FALSE)
             ELSE Outcome(set_block_values(st, "step",
                              IntV(RoundHalfEven(Last(numbers).v)), "step", None),
                          FALSE, TRUE)
        ELSE IF "time [fs]" \in line.keys
        THEN Outcome(IF numbers # << >>
                     THEN set_block_values(st, "time_fs", numbers[1], "time_fs", None)
                     ELSE st, FALSE, TRUE)
        ELSE IF "conserved quantity" \in line.keys
        THEN Outcome(IF numbers # << >>
                     THEN set_block_values(st, "conserved_energy", numbers[1],
                                           "conserved_energy", None)
                     ELSE st, FALSE, TRUE)
        ELSE Outcome(PairBranches(line, st, 1), FALSE, TRUE)

parse_line_for_metrics(line, st) ==
    IF line.pre = "blank" THEN Outcome(st, FALSE, FALSE)
    ELSE IF StartsWithMD(line)
    THEN IF StartsWithMDStars(line)
         THEN IF is_block_open(st)
              THEN Outcome(finalize_block(st), FALSE, ~Discarded(st))
              ELSE Outcome(start_block(st), FALSE, FALSE)
         ELSE IF ~is_block_open(st) THEN Outcome(st, FALSE, FALSE)
         ELSE BlockLine(line, st)
    ELSE IF {"energy|", "total force_eval"} \subseteq line.keys
    THEN IF Numbers(line) # << >>
         THEN Outcome(update_latest_block(st, "total_energy", Last(Numbers(line))),
                      FALSE, is_block_open(st) \/ st.blocks # << >>)
         ELSE Outcome(st, FALSE, FALSE)
    ELSE Outcome(st, FALSE, FALSE)

---------------------------------------------------------------------------
(* The lines the models feed *)

Marker == Line(" MD| ***", {"md| ***"}, << >>)
Step12 == Line(" MD|", {"step number"}, <<Num(12000)>>)
Step13 == Line(" MD|", {"step number"}, <<Num(13000)>>)
StepNan == Line(" MD|", {"step number"}, <<TokNan>>)
StepNoNumber == Line(" MD|", {"step number"}, << >>)
Potential == Line(" MD|", {"potential energy"}, <<Word, Num(-10500), Num(-10400)>>)
Kinetic == Line(" MD|", {"kinetic energy"}, <<Word, Num(20), Num(21)>>)
TimeNoNumber == Line(" MD|", {"time [fs]"}, <<Word>>)
ForceEval == Line("other", {"energy|", "total force_eval"}, <<Word, Num(-10000)>>)
Plain == Line("other", {}, <<Word>>)

LiveLines ==
    {Marker, Step12, Potential, Kinetic, StepNan, TimeNoNumber, ForceEval}

---------------------------------------------------------------------------
(* SpecLive: lines fed one at a time to parse_line_for_metrics on a fresh  *)
(* RunState with no state file.                                            *)

TheStore == Store(current_block, blocks, metrics, last_step)

InitStore ==
    /\ tail = << >>
    /\ metrics = EmptyMetrics
    /\ blocks = << >>
    /\ status = "launching"
    /\ return_code = << >>
    /\ pid = << >>
    /\ done = FALSE
    /\ cancel_requested = FALSE
    /\ last_step = << >>
    /\ current_block = NoBlock
    /\ state_file = FALSE

\* md_block_stream before its first readline()
InitStream ==
    /\ current = NoBlock
    /\ inside_md = FALSE
    /\ yielded = << >>
    /\ s_raised = FALSE
    /\ eof = FALSE

Threads == {"main", "runner", "reader"}

Idle == [pc |-> "idle", force |-> FALSE, snap |-> << >>, loc |-> "none", k |-> 0]

NoProc == [st |-> "none", code |-> 0, pipe |-> << >>, written |-> << >>]

\* main not started
NoEnv ==
    [inp |-> "exists", cp2k_arg |-> "none", cp2k_on_path |-> TRUE,
     dashboard |-> "auto", no_dashboard |-> FALSE, streamlit |-> FALSE,
     app |-> FALSE, tty |-> FALSE, curses_import |-> FALSE, curses_loop |-> FALSE,
     code |-> 0]

NoOut ==
    [log_created |-> FALSE, child_spawned |-> FALSE, renderer_spawned |-> FALSE,
     launches |-> << >>, stdout |-> << >>, rc |-> << >>, exit |-> << >>]

\* the renderer not started
NoRend == [pc |-> "none", shown |-> "nothing", polls |-> 0]

NoCall ==
    [name |-> "none", key |-> "", value |-> [t |-> "none", v |-> 0],
     before |-> << >>, after |-> << >>]

NoOp == [pc |-> "idle", line |-> << >>, out |-> << >>]

\* the rate limit of write_snapshot, in tenths of a second
RateInterval == 5

\* time.time() when the RunState is made: far more than RateInterval after
\* the epoch
StartTime == 2 * RateInterval

\* self._last_snapshot_write = 0.0
InitClock ==
    /\ now = StartTime
    /\ last_snapshot_write = 0

\* nobody holds the lock, no snapshot taken
InitExt ==
    /\ lock = "free"
    /\ op = NoOp
    /\ snaps = << >>
    /\ call = NoCall
    /\ env = NoEnv
    /\ outcome = NoOut
    /\ rend = NoRend
    /\ InitClock

\* no state file yet, no write in progress
InitFiles ==
    /\ writer = [t \in Threads |-> Idle]
    /\ fs = [name \in {"tmp", "file"} |-> << >>]
    /\ seen = "never"

\* the extractor models run no supervisor
InitNoRun ==
    /\ mode = "none"
    /\ pc = [t \in Threads |-> "idle"]
    /\ proc = NoProc
    /\ log = << >>
    /\ signals = << >>
    /\ cur_line = << >>
    /\ runner_rc = << >>
    /\ finalize_calls = 0
    /\ cancel_log = << >>
    /\ InitFiles
    /\ InitExt

InitLive ==
    /\ InitStore
    /\ InitStream
    /\ InitNoRun
    /\ follow = TRUE
    /\ fed = << >>
    /\ raised = FALSE

LiveFeed ==
    \E line \in LiveLines :
        /\ ~raised
        /\ Len(fed) < MaxLines
        /\ LET out == parse_line_for_metrics(line, TheStore)
           IN  /\ current_block' = out.st.current_block
               /\ blocks' = out.st.blocks
               /\ metrics' = out.st.metrics
               /\ last_step' = out.st.last_step
               /\ raised' = out.raised
        /\ fed' = Append(fed, line)
        /\ UNCHANGED <<storeVars, streamVars, runVars, fileVars, extVars>>

NextLive == LiveFeed

SpecLive == InitLive /\ [][NextLive]_vars

---------------------------------------------------------------------------
(* tools/md_live_plot.py *)

\* MD_LINE = re.compile(r"^\s*MD\|")
MD_LINE(line) == line.pre \in {" MD|", " MD| ***", "MD|"}

\* FLOAT_RE finds the tokens that look like numbers, either exponent letter
\* in either case; "nan", "inf" and words are not found
FLOAT_RE(tok) == tok.cls \in {"num", "numD", "numd"}

\* float(token.replace("D", "E")) raises on a lower-case d exponent
ParseFloatRaises(line) == \E i \in 1..Len(line.toks) : line.toks[i].cls = "numd"

parse_float_values(line) ==
    LET s == SelectSeq(line.toks, FLOAT_RE)
    IN  [i \in 1..Len(s) |-> Fin(s[i].v)]

finalize_record(record) == DeriveTotals(record)

\* parts[-1] of a "step number" line: the last token, a keyword when the
\* line has no other
LastPart(line) == IF line.toks = << >> THEN Word ELSE line.toks[Len(line.toks)]

\* float(parts[-1]): no D-to-E replacement here
StepFloatRaises(tok) == tok.cls \in {"numD", "numd", "word"}

\* a generator state [current, inside_md] and what one loop iteration adds
SOut(cur, im, ys, r) == [current |-> cur, inside_md |-> im, yields |-> ys, raised |-> r]

\* if current: a dict that is not None and not empty
Truthy(cur) == cur # NoBlock /\ cur[1] # EmptyDict

\* a "step number" branch that replaces the open record without yielding it
StreamStartStepNoYield(line, cur, im) ==
    IF StepFloatRaises(LastPart(line)) THEN SOut(cur, im, << >>, TRUE)
    ELSE SOut(Some(Put(EmptyDict, "step", _to_float(LastPart(line)))),
              TRUE, << >>, FALSE)

\* the "step number" branch: the open record is yielded, then a new one is
\* opened from the last token
StreamStartStep(line, cur, im) ==
    LET ys == IF Truthy(cur) THEN <<finalize_record(cur[1])>> ELSE << >>
    IN  IF StepFloatRaises(LastPart(line)) THEN SOut(cur, im, ys, TRUE)
        ELSE SOut(Some(Put(EmptyDict, "step", _to_float(LastPart(line)))),
                  TRUE, ys, FALSE)

\* the field keys md_block_stream tests inside an MD block, in order
StreamChain ==
    << <<"time [fs]", "time_fs", "time_fs">>,
       <<"conserved quantity", "conserved_energy", "conserved_energy">>,
       <<"cpu time per md step", "cpu_time_per_step", "cpu_time_per_step_avg">>,
       <<"energy drift per atom", "energy_drift_inst", "energy_drift_avg">>,
       <<"potential energy", "potential_inst", "potential_avg">>,
       <<"kinetic energy", "kinetic_inst", "kinetic_avg">>,
       <<"temperature_inst", "temperature_inst", "temperature_avg">> >>

RECURSIVE StreamFields(_, _, _)
StreamFields(line, rec, i) ==
    LET values == parse_float_values(line)
    IN  IF i > Len(StreamChain) \/ values = << >> THEN rec
        ELSE IF StreamChain[i][1] \in line.keys
        THEN IF StreamChain[i][2] = StreamChain[i][3]
             THEN Put(rec, StreamChain[i][2], values[1])
             ELSE PutIfNotNone(Put(rec, StreamChain[i][2], values[1]),
                               StreamChain[i][3], Second(values))
        ELSE StreamFields(line, rec, i + 1)

\* the post-SCF keys tested before the terminal scalar
PostKeys ==
    << <<"overlap energy of the core charge distribution", "overlap_energy_core">>,
       <<"self energy of the core charge distribution", "self_energy_core">>,
       <<"core hamiltonian energy", "core_hamiltonian_energy">>,
       <<"hartree energy", "hartree_energy">>,
       <<"exchange-correlation energy", "exchange_correlation_energy">>,
       <<"dispersion energy", "dispersion_energy">> >>

PostKeyMatch(line) == \E i \in 1..Len(PostKeys) : PostKeys[i][1] \in line.keys

FirstPostKey(line) ==
    CHOOSE i \in 1..Len(PostKeys) :
        /\ PostKeys[i][1] \in line.keys
        /\ \A j \in 1..(i - 1) : PostKeys[j][1] \notin line.keys

\* a line outside the MD block while a record is open
StreamPostLine(line, cur, im) ==
    LET values == parse_float_values(line)
        rec == cur[1]
    IN  IF ParseFloatRaises(line) THEN SOut(cur, im, << >>, TRUE)
        ELSE IF values = << >> THEN SOut(cur, im, << >>, FALSE)
        ELSE IF PostKeyMatch(line)
        THEN SOut(Some(Put(rec, PostKeys[FirstPostKey(line)][2], values[1])),
                  im, << >>, FALSE)
        ELSE IF "total energy:" \in line.keys
        THEN SOut(NoBlock, im,
                  <<finalize_record(Put(rec, "total_energy", values[1]))>>, FALSE)
        ELSE IF {"energy|", "total force_eval"} \subseteq line.keys
        THEN SOut(NoBlock, im,
                  <<finalize_record(Put(rec, "total_energy", Last(values)))>>, FALSE)
        ELSE SOut(cur, im, << >>, FALSE)

\* one iteration of the loop of md_block_stream on a line that was read
md_block_stream(line, cur, im) ==
    IF MD_LINE(line)
    THEN LET r == IF "step number" \in line.keys THEN StreamStartStep(line, cur, im)
                  ELSE IF im /\ cur # NoBlock
                  THEN IF ParseFloatRaises(line) THEN SOut(cur, im, << >>, TRUE)
                       ELSE SOut(Some(StreamFields(line, cur[1], 1)), im, << >>, FALSE)
                  ELSE SOut(cur, im, << >>, FALSE)
         IN  IF ~r.raised /\ "md| ***" \in line.keys
             THEN [r EXCEPT !.inside_md = FALSE]
             ELSE r
    ELSE IF cur = NoBlock THEN SOut(cur, im, << >>, FALSE)
    ELSE StreamPostLine(line, cur, im)

TotalEnergyLine == Line("other", {"total energy:"}, <<Word, Num(-9000)>>)

StreamLines ==
    {Marker, Step12, Step13, StepNoNumber, Potential, ForceEval, TotalEnergyLine}

---------------------------------------------------------------------------
(* SpecStream: md_block_stream reading a file line by line, in following   *)
(* and in read-once mode.                                                  *)

InitStreamSpec ==
    /\ InitStore
    /\ InitStream
    /\ InitNoRun
    /\ follow \in BOOLEAN
    /\ fed = << >>
    /\ raised = FALSE

\* readline() returns a line
StreamLine ==
    \E line \in StreamLines :
        /\ ~s_raised /\ ~eof
        /\ Len(fed) < MaxStreamLines
        /\ LET r == md_block_stream(line, current, inside_md)
           IN  /\ current' = r.current
               /\ inside_md' = r.inside_md
               /\ yielded' = yielded \o r.yields
               /\ s_raised' = r.raised
        /\ fed' = Append(fed, line)
        /\ UNCHANGED <<storeVars, follow, eof, metrics, blocks, last_step,
                       current_block, raised, runVars, fileVars, extVars>>

\* an end of input that returns without the final flush
StreamEndOfInputNoFlush ==
    /\ ~s_raised /\ ~eof
    /\ ~follow
    /\ eof' = TRUE
    /\ UNCHANGED <<storeVars, liveVars, current, inside_md, yielded, s_raised,
                   follow, runVars, fileVars, extVars>>

\* readline() returns "" with follow=False: the open record is flushed and
\* the generator returns
StreamEndOfInput ==
    /\ ~s_raised /\ ~eof
    /\ ~follow
    /\ yielded' = IF Truthy(current) THEN Append(yielded, finalize_record(current[1]))
                  ELSE yielded
    /\ eof' = TRUE
    /\ UNCHANGED <<storeVars, liveVars, current, inside_md, s_raised, follow,
                   runVars, fileVars, extVars>>

\* readline() returns "" with follow=True: sleep and read again
StreamWait ==
    /\ ~s_raised /\ ~eof
    /\ follow
    /\ UNCHANGED vars

NextStream == StreamLine \/ StreamEndOfInput \/ StreamWait

SpecStream == InitStreamSpec /\ [][NextStream]_vars

---------------------------------------------------------------------------
(* Claims about the extractors *)

C1Record ==
    [step |-> IntV(12), potential_inst |-> Fin(-10500), potential_avg |-> Fin(-10400),
     kinetic_inst |-> Fin(20), kinetic_avg |-> Fin(21),
     total_energy |-> Fin(-10480), total_energy_avg |-> Fin(-10379)]

IsStepLine(line) == MD_LINE(line) /\ "step number" \in line.keys
IsEndMarker(line) == MD_LINE(line) /\ "md| ***" \in line.keys /\ ~IsStepLine(line)
IsTerminalScalar(line) ==
    /\ ~MD_LINE(line)
    /\ parse_float_values(line) # << >>
    /\ ~PostKeyMatch(line)
    /\ \/ "total energy:" \in line.keys
       \/ {"energy|", "total force_eval"} \subseteq line.keys

\* the positions of the block-start lines of s that are later followed by a
\* line satisfying one of the tests
FollowedStarts(s, byStep, byTerminal, byMarker) ==
    {i \in 1..Len(s) :
        /\ IsStepLine(s[i])
        /\ \E j \in (i + 1)..Len(s) :
              \/ byStep /\ IsStepLine(s[j])
              \/ byTerminal /\ IsTerminalScalar(s[j])
              \/ byMarker /\ IsEndMarker(s[j])}

\* the block-start line still open at the end of s, if any
PendingStart(s) ==
    {i \in 1..Len(s) :
        /\ IsStepLine(s[i])
        /\ \A j \in (i + 1)..Len(s) : ~IsStepLine(s[j]) /\ ~IsTerminalScalar(s[j])}

\* the elements of a set of positions in increasing order
RECURSIVE Ascending(_)
Ascending(S) ==
    IF S = {} THEN << >>
    ELSE LET m == CHOOSE x \in S : \A y \in S : x <= y
         IN  <<m>> \o Ascending(S \ {m})

StepOfLine(line) == _to_float(LastPart(line))

C3_LiveNeverRaises == ~raised

---------------------------------------------------------------------------
(* RunState: the ring buffer, the lifecycle, the snapshot                  *)

TailCap == 100
DashboardErrorCode == 1

\* a deque without maxlen
DequeAppendUnbounded(q, x) == Append(q, x)

\* deque(maxlen=100).append
DequeAppend(q, x) ==
    IF Len(q) >= TailCap THEN Append(Tail(q), x) ELSE Append(q, x)

\* f"<dashboard error: {exc}>"
DashboardError == Line("<dashboard error", {}, << >>)

\* a finalize that reports every run as completed
FinalizeStatusAlwaysCompleted(rc) == "completed"

\* self.status = "completed" if return_code == 0 else f"failed ({return_code})"
FinalizeStatus(rc) ==
    IF rc = 0 THEN "completed" ELSE "failed (" \o ToString(rc) \o ")"

\* a finalize that sets the status and leaves return_code as it was
finalizeStatusOnly(rc) ==
    /\ return_code' = return_code
    /\ status' = FinalizeStatus(rc)
    /\ done' = TRUE
    /\ finalize_calls' = finalize_calls + 1

\* finalize(return_code), up to done.set(); its write_snapshot(force=True)
\* is the caller's next step
finalize(rc) ==
    /\ return_code' = Some(rc)
    /\ status' = FinalizeStatus(rc)
    /\ done' = TRUE
    /\ finalize_calls' = finalize_calls + 1

_snapshot_locked ==
    [status |-> status, return_code |-> return_code, pid |-> pid,
     tail |-> tail, metrics |-> metrics, blocks |-> blocks]

---------------------------------------------------------------------------
(* write_snapshot: the lock section, then the file operations outside the  *)
(* lock.  A file's content is [snap, n, by, mixed]: the snapshot being     *)
(* written, how many of its Chunks are in the file, the thread that        *)
(* created or truncated it, and whether another thread wrote into it.      *)

\* a write_snapshot that opens the state file itself for writing
temp_path_is_target == "file"

\* path.with_suffix(path.suffix + ".tmp")
temp_path == "tmp"
target_path == "file"

Call(force) == [pc |-> "call", force |-> force, snap |-> << >>, loc |-> "none", k |-> 0]

Complete(c) == c.n = Chunks /\ ~c.mixed

\* the lock section of write_snapshot: no state file, rate-limited, or the
\* snapshot is taken
WsLock(t) ==
    /\ writer[t].pc = "call"
    /\ \/ ~state_file /\ writer' = [writer EXCEPT ![t] = Idle]
       \/ state_file /\ ~writer[t].force /\ writer' = [writer EXCEPT ![t] = Idle]
       \/ state_file /\ writer' = [writer EXCEPT ![t].pc = "open",
                                                  ![t].snap = <<_snapshot_locked>>]
    /\ UNCHANGED <<liveVars, storeVars, streamVars, runVars, fs, seen, extVars>>

\* open(temp_path, "w"): creates the file or truncates the one of that name
WsOpen(t) ==
    /\ writer[t].pc = "open"
    /\ fs' = [fs EXCEPT ![temp_path] =
                 <<[snap |-> writer[t].snap[1], n |-> 0, by |-> t, mixed |-> FALSE]>>]
    /\ writer' = [writer EXCEPT ![t].pc = "write", ![t].loc = temp_path]
    /\ UNCHANGED <<liveVars, storeVars, streamVars, runVars, seen, extVars>>

WriteChunk(c, t) ==
    IF c.by = t /\ ~c.mixed THEN [c EXCEPT !.n = @ + 1] ELSE [c EXCEPT !.mixed = TRUE]

\* json.dump reaches the file chunk by chunk, through the handle: into the
\* file that now has the name the handle's file has (or into an unlinked
\* file); the with block closes the handle after the last chunk
WsWrite(t) ==
    /\ writer[t].pc = "write"
    /\ fs' = IF writer[t].loc \in {"tmp", "file"}
             THEN [fs EXCEPT ![writer[t].loc] = <<WriteChunk(@[1], t)>>]
             ELSE fs
    /\ writer' = [writer EXCEPT ![t].k = @ + 1,
                                ![t].pc = IF writer[t].k + 1 >= Chunks
                                          THEN "replace" ELSE "write",
                                ![t].loc = IF writer[t].k + 1 >= Chunks
                                           THEN "none" ELSE @]
    /\ UNCHANGED <<liveVars, storeVars, streamVars, runVars, seen, extVars>>

\* os.replace(temp_path, path); FileNotFoundError is an OSError
WsReplace(t) ==
    /\ writer[t].pc = "replace"
    /\ IF temp_path = target_path \/ fs[temp_path] = << >>
       THEN /\ fs' = fs
            /\ writer' = [writer EXCEPT ![t] = Idle]
       ELSE /\ fs' = [name \in {"tmp", "file"} |->
                         IF name = target_path THEN fs[temp_path] ELSE << >>]
            /\ writer' = [u \in Threads |->
                             IF u = t THEN Idle
                             ELSE IF writer[u].loc = temp_path
                             THEN [writer[u] EXCEPT !.loc = target_path]
                             ELSE IF writer[u].loc = target_path
                             THEN [writer[u] EXCEPT !.loc = "orphan"]
                             ELSE writer[u]]
    /\ UNCHANGED <<liveVars, storeVars, streamVars, runVars, seen, extVars>>

\* a write_snapshot that lets the OSError out into its caller
WsIOErrorRaises(t) ==
    /\ writer[t].pc \in {"open", "write", "replace"}
    /\ writer' = [writer EXCEPT ![t] = Idle]
    /\ pc' = [pc EXCEPT ![t] = "except"]
    /\ UNCHANGED <<liveVars, storeVars, streamVars, runRest, fs, seen, extVars>>

\* except OSError: pass
WsIOError(t) ==
    /\ writer[t].pc \in {"open", "write", "replace"}
    /\ writer' = [writer EXCEPT ![t] = Idle]
    /\ UNCHANGED <<liveVars, storeVars, streamVars, runVars, fs, seen, extVars>>

\* streamlit_dashboard.load_state at a poll
load_state ==
    IF fs[target_path] = << >> THEN "absent"
    ELSE IF Complete(fs[target_path][1]) THEN "snapshot" ELSE "torn"

RendererLoad ==
    /\ mode = "streamlit"
    /\ pc["main"] \in {"make_runner", "join"} /\ writer["main"].pc = "idle"
    /\ seen' = load_state
    /\ UNCHANGED <<liveVars, storeVars, streamVars, runVars, writer, fs, extVars>>

---------------------------------------------------------------------------
(* The supervised child *)

ExitCodes == {0, 2, -2}

RunLines == {Marker, Step12, StepNan}

\* the child writes a line to its stdout, the pipe
ChildWrite ==
    \E line \in RunLines :
        /\ proc.st = "running"
        /\ Len(proc.written) < MaxChildLines
        /\ Len(proc.pipe) < PipeCap
        /\ proc' = [proc EXCEPT !.pipe = Append(@, line), !.written = Append(@, line)]
        /\ UNCHANGED <<liveVars, storeVars, streamVars, fileVars, mode, pc, log,
                       signals, cur_line, runner_rc, finalize_calls, cancel_log, extVars>>

\* the child exits of its own accord; -2 is death by the interrupt signal
ChildExit ==
    \E code \in ExitCodes :
        /\ proc.st = "running"
        /\ code < 0 => signals # << >>
        /\ proc' = [proc EXCEPT !.st = "exited", !.code = code]
        /\ UNCHANGED <<liveVars, storeVars, streamVars, fileVars, mode, pc, log,
                       signals, cur_line, runner_rc, finalize_calls, cancel_log, extVars>>

---------------------------------------------------------------------------
(* run_cp2k_process and main.make_runner.worker: the runner thread *)

\* a supervisor that force-kills on cancellation
CancelSignalKill == "SIGKILL"

CancelSignal == "SIGINT"

\* a polling loop without the break after send_signal
BreakTargetLoop == "poll"

\* where the break after send_signal leaves the polling loop to
BreakTarget == "join"

Goto(t, label) == pc' = [pc EXCEPT ![t] = label]

At(t, label) == pc[t] = label /\ writer[t].pc = "idle"

Finished(t) == At(t, "done")

\* a run_cp2k_process that does not mark the run as running
RunnerMarkNothing ==
    /\ At("runner", "mark_running")
    /\ Goto("runner", "popen")
    /\ UNCHANGED <<liveVars, storeVars, streamVars, fileVars, mode, proc, log, signals,
                   cur_line, runner_rc, finalize_calls, cancel_log, extVars>>

RunnerMarkRunning ==
    /\ At("runner", "mark_running")
    /\ status' = "running"
    /\ Goto("runner", "popen")
    /\ UNCHANGED <<liveVars, streamVars, fileVars, tail, return_code, pid, done,
                   cancel_requested, state_file, mode, proc, log, signals,
                   cur_line, runner_rc, finalize_calls, cancel_log, extVars>>

RunnerPopen ==
    /\ At("runner", "popen")
    /\ proc' = [proc EXCEPT !.st = "running"]
    /\ Goto("runner", "set_pid")
    /\ UNCHANGED <<liveVars, storeVars, streamVars, fileVars, mode, log, signals,
                   cur_line, runner_rc, finalize_calls, cancel_log, extVars>>

\* Popen (or opening the log file) raises: the worker's except clause
RunnerPopenFails ==
    /\ At("runner", "popen")
    /\ Goto("runner", "except")
    /\ UNCHANGED <<liveVars, storeVars, streamVars, fileVars, mode, proc, log,
                   signals, cur_line, runner_rc, finalize_calls, cancel_log, extVars>>

RunnerSetPid ==
    /\ At("runner", "set_pid")
    /\ pid' = Some(4242)
    /\ Goto("runner", "start_reader")
    /\ UNCHANGED <<liveVars, streamVars, fileVars, tail, status, return_code, done,
                   cancel_requested, state_file, mode, proc, log, signals,
                   cur_line, runner_rc, finalize_calls, cancel_log, extVars>>

RunnerStartReader ==
    /\ At("runner", "start_reader")
    /\ pc' = [pc EXCEPT !["runner"] = "poll", !["reader"] = "read"]
    /\ UNCHANGED <<liveVars, storeVars, streamVars, fileVars, mode, proc, log,
                   signals, cur_line, runner_rc, finalize_calls, cancel_log, extVars>>

\* while proc.poll() is None
RunnerPoll ==
    /\ At("runner", "poll")
    /\ Goto("runner", IF proc.st = "exited" THEN "join" ELSE "check")
    /\ UNCHANGED <<liveVars, storeVars, streamVars, fileVars, mode, proc, log,
                   signals, cur_line, runner_rc, finalize_calls, cancel_log, extVars>>

\* if state.cancelled(): ... else time.sleep(0.1)
RunnerCheck ==
    /\ At("runner", "check")
    /\ Goto("runner", IF cancel_requested THEN "send" ELSE "poll")
    /\ UNCHANGED <<liveVars, storeVars, streamVars, fileVars, mode, proc, log,
                   signals, cur_line, runner_rc, finalize_calls, cancel_log, extVars>>

\* proc.send_signal(signal.SIGINT): nothing is sent to a child that exited
RunnerSend ==
    /\ At("runner", "send")
    /\ signals' = IF proc.st = "running" THEN Append(signals, CancelSignal)
                  ELSE signals
    /\ Goto("runner", "break")
    /\ UNCHANGED <<liveVars, storeVars, streamVars, fileVars, mode, proc, log,
                   cur_line, runner_rc, finalize_calls, cancel_log, extVars>>

RunnerBreak ==
    /\ At("runner", "break")
    /\ Goto("runner", BreakTarget)
    /\ UNCHANGED <<liveVars, storeVars, streamVars, fileVars, mode, proc, log,
                   signals, cur_line, runner_rc, finalize_calls, cancel_log, extVars>>

\* reader_thread.join()
RunnerJoin ==
    /\ At("runner", "join")
    /\ pc["reader"] \in {"done", "dead"} /\ writer["reader"].pc = "idle"
    /\ Goto("runner", "wait")
    /\ UNCHANGED <<liveVars, storeVars, streamVars, fileVars, mode, proc, log,
                   signals, cur_line, runner_rc, finalize_calls, cancel_log, extVars>>

\* return_code = proc.wait()
RunnerWait ==
    /\ At("runner", "wait")
    /\ proc.st = "exited"
    /\ runner_rc' = Some(proc.code)
    /\ Goto("runner", "finalize")
    /\ UNCHANGED <<liveVars, storeVars, streamVars, fileVars, mode, proc, log,
                   signals, cur_line, finalize_calls, cancel_log, extVars>>

\* a finalize whose write_snapshot is not forced
RunnerFinalizeUnforced ==
    /\ At("runner", "finalize")
    /\ finalize(runner_rc[1])
    /\ writer' = [writer EXCEPT !["runner"] = Call(FALSE)]
    /\ Goto("runner", "done")
    /\ UNCHANGED <<liveVars, streamVars, tail, pid, cancel_requested, state_file,
                   mode, proc, log, signals, cur_line, runner_rc, cancel_log, fs, seen, extVars>>

\* state.finalize(return_code)
RunnerFinalize ==
    /\ At("runner", "finalize")
    /\ finalize(runner_rc[1])
    /\ writer' = [writer EXCEPT !["runner"] = Call(TRUE)]
    /\ Goto("runner", "done")
    /\ UNCHANGED <<liveVars, streamVars, tail, pid, cancel_requested, state_file,
                   mode, proc, log, signals, cur_line, runner_rc, cancel_log, fs, seen, extVars>>

\* the worker's except clause: run_state.append_tail(f"<dashboard error: ...>")
RunnerExcept ==
    /\ At("runner", "except")
    /\ tail' = DequeAppend(tail, DashboardError)
    /\ writer' = [writer EXCEPT !["runner"] = Call(FALSE)]
    /\ Goto("runner", "except_finalize")
    /\ UNCHANGED <<liveVars, streamVars, status, return_code, pid, done,
                   cancel_requested, state_file, mode, proc, log, signals,
                   cur_line, runner_rc, finalize_calls, cancel_log, fs, seen, extVars>>

\* a worker whose except clause reports the error and does not finalize
RunnerExceptNoFinalize ==
    /\ At("runner", "except_finalize")
    /\ Goto("runner", "done")
    /\ UNCHANGED <<liveVars, storeVars, streamVars, fileVars, mode, proc, log,
                   signals, cur_line, runner_rc, finalize_calls, cancel_log, extVars>>

\* the worker's except clause: run_state.finalize(return_code=1)
RunnerExceptFinalize ==
    /\ At("runner", "except_finalize")
    /\ finalize(DashboardErrorCode)
    /\ writer' = [writer EXCEPT !["runner"] = Call(TRUE)]
    /\ Goto("runner", "done")
    /\ UNCHANGED <<liveVars, streamVars, tail, pid, cancel_requested, state_file,
                   mode, proc, log, signals, cur_line, runner_rc, cancel_log, fs, seen, extVars>>

---------------------------------------------------------------------------
(* run_cp2k_process.reader: the reader thread *)

\* for raw_line in proc.stdout: state.append_tail(raw_line)
ReaderRead ==
    /\ At("reader", "read")
    /\ proc.pipe # << >>
    /\ cur_line' = Some(Head(proc.pipe))
    /\ proc' = [proc EXCEPT !.pipe = Tail(@)]
    /\ tail' = DequeAppend(tail, Head(proc.pipe))
    /\ writer' = [writer EXCEPT !["reader"] = Call(FALSE)]
    /\ Goto("reader", "parse")
    /\ UNCHANGED <<liveVars, streamVars, status, return_code, pid, done,
                   cancel_requested, state_file, mode, log, signals, runner_rc,
                   finalize_calls, cancel_log, fs, seen, extVars>>

\* end of file: the child has exited and the pipe is drained;
\* proc.stdout.close()
ReaderEOF ==
    /\ At("reader", "read")
    /\ proc.pipe = << >> /\ proc.st = "exited"
    /\ Goto("reader", "done")
    /\ UNCHANGED <<liveVars, storeVars, streamVars, fileVars, mode, proc, log,
                   signals, cur_line, runner_rc, finalize_calls, cancel_log, extVars>>

\* parse_line_for_metrics(raw_line, state); an exception ends the thread
ReaderParse ==
    /\ At("reader", "parse")
    /\ LET out == parse_line_for_metrics(cur_line[1], TheStore)
       IN  /\ current_block' = out.st.current_block
           /\ blocks' = out.st.blocks
           /\ metrics' = out.st.metrics
           /\ last_step' = out.st.last_step
           /\ raised' = out.raised
           /\ writer' = IF out.wrote /\ ~out.raised
                        THEN [writer EXCEPT !["reader"] = Call(FALSE)]
                        ELSE writer
           /\ Goto("reader", IF out.raised THEN "dead" ELSE "log")
    /\ fed' = Append(fed, cur_line[1])
    /\ UNCHANGED <<storeVars, streamVars, mode, proc, log, signals, cur_line,
                   runner_rc, finalize_calls, cancel_log, fs, seen, extVars>>

\* log.write(raw_line)
ReaderLog ==
    /\ At("reader", "log")
    /\ log' = Append(log, cur_line[1])
    /\ Goto("reader", "read")
    /\ UNCHANGED <<liveVars, storeVars, streamVars, fileVars, mode, proc, signals,
                   cur_line, runner_rc, finalize_calls, cancel_log, extVars>>

---------------------------------------------------------------------------
(* main: the streamlit branch and the curses branch *)

\* launch_streamlit: set_state_file(state_path); write_snapshot(force=True)
MainLaunchStreamlit ==
    /\ At("main", "launch_streamlit")
    /\ state_file' = TRUE
    /\ writer' = [writer EXCEPT !["main"] = Call(TRUE)]
    /\ Goto("main", "make_runner")
    /\ UNCHANGED <<liveVars, streamVars, runRest, tail, status, return_code,
                   pid, done, cancel_requested, fs, seen, extVars>>

\* make_runner(state): thread.start()
MainMakeRunner ==
    /\ At("main", "make_runner")
    /\ pc' = [pc EXCEPT !["runner"] = "mark_running",
                        !["main"] = IF mode = "streamlit" THEN "join" ELSE "dashboard"]
    /\ UNCHANGED <<liveVars, storeVars, streamVars, fileVars, runRest, extVars>>

\* dashboard_loop: the c key, state.request_cancel()
MainDashboardCancel ==
    /\ At("main", "dashboard")
    /\ Len(cancel_log) < MaxCancelCalls
    /\ cancel_requested' = TRUE
    /\ cancel_log' = Append(cancel_log, proc.st)
    /\ UNCHANGED <<liveVars, streamVars, fileVars, tail, status, return_code, pid,
                   done, state_file, mode, pc, proc, log, signals, cur_line,
                   runner_rc, finalize_calls, extVars>>

\* a redraw loop whose q key also requests cancellation
MainDashboardQuitCancels ==
    /\ At("main", "dashboard")
    /\ cancel_requested' = TRUE
    /\ Goto("main", "join")
    /\ UNCHANGED <<liveVars, streamVars, fileVars, runRest, tail, status,
                   return_code, pid, done, state_file, extVars>>

\* dashboard_loop: the q key
MainDashboardQuit ==
    /\ At("main", "dashboard")
    /\ Goto("main", "join")
    /\ UNCHANGED <<liveVars, storeVars, streamVars, fileVars, runRest, extVars>>

\* dashboard_loop: state.done.is_set()
MainDashboardDone ==
    /\ At("main", "dashboard")
    /\ done
    /\ Goto("main", "join")
    /\ UNCHANGED <<liveVars, storeVars, streamVars, fileVars, runRest, extVars>>

\* runner.join()
MainJoin ==
    /\ At("main", "join")
    /\ Finished("runner")
    /\ Goto("main", IF mode = "streamlit" THEN "cleanup" ELSE "exit")
    /\ UNCHANGED <<liveVars, storeVars, streamVars, fileVars, runRest, extVars>>

\* the finally clause of the streamlit branch: the renderer is terminated
\* and the directory of the state file removed
MainCleanup ==
    /\ At("main", "cleanup")
    /\ fs' = [name \in {"tmp", "file"} |-> << >>]
    /\ Goto("main", "exit")
    /\ UNCHANGED <<liveVars, storeVars, streamVars, runRest, writer, seen, extVars>>

---------------------------------------------------------------------------
(* Spec: one supervised run, with the streamlit or the curses dashboard *)

Init ==
    /\ InitStore
    /\ InitStream
    /\ InitFiles
    /\ InitExt
    /\ follow = TRUE
    /\ fed = << >>
    /\ raised = FALSE
    /\ mode \in {"streamlit", "curses"}
    /\ pc = [t \in Threads |->
                IF t = "main"
                THEN IF mode = "streamlit" THEN "launch_streamlit" ELSE "make_runner"
                ELSE "idle"]
    /\ proc = NoProc
    /\ log = << >>
    /\ signals = << >>
    /\ cur_line = << >>
    /\ runner_rc = << >>
    /\ finalize_calls = 0
    /\ cancel_log = << >>

Next ==
    \/ MainLaunchStreamlit \/ MainMakeRunner
    \/ MainDashboardCancel \/ MainDashboardQuit \/ MainDashboardDone
    \/ MainJoin \/ MainCleanup
    \/ RunnerMarkRunning \/ RunnerPopen \/ RunnerPopenFails \/ RunnerSetPid
    \/ RunnerStartReader \/ RunnerPoll \/ RunnerCheck \/ RunnerSend \/ RunnerBreak
    \/ RunnerJoin \/ RunnerWait \/ RunnerFinalize
    \/ RunnerExcept \/ RunnerExceptFinalize
    \/ ReaderRead \/ ReaderEOF \/ ReaderParse \/ ReaderLog
    \/ ChildWrite \/ ChildExit
    \/ \E t \in Threads : WsLock(t) \/ WsOpen(t) \/ WsWrite(t) \/ WsReplace(t)
                             \/ WsIOError(t)
    \/ RendererLoad

Spec == Init /\ [][Next]_vars

---------------------------------------------------------------------------
(* The supervisor's claims *)

InTail(line) == \E i \in 1..Len(tail) : tail[i] = line

\* C4 as stated: when the reader raised on a line, the finished run is
\* marked failed with the synthetic code 1 and the error text is in tail.
C4_ReaderRaiseMarksFailed ==
    (raised /\ Finished("runner")) =>
        /\ status = "failed (1)"
        /\ return_code = Some(1)
        /\ InTail(DashboardError)

\* C5 as stated: once request_cancel was called (one or more times) while
\* the child was running, the finished run has sent exactly one signal.
C5_ExactlyOneSignal ==
    (Finished("runner") /\ \E i \in 1..Len(cancel_log) : cancel_log[i] = "running")
        => Len(signals) = 1

\* C5 amended: however many times request_cancel is called, at most one
\* signal is sent, none without a request, and exactly one when send_signal
\* is reached while the child is still running.
C5_AtMostOneSignal ==
    /\ Len(signals) <= 1
    /\ signals # << >> => cancel_requested
    /\ pc["runner"] = "break" => (Len(signals) = 1 \/ proc.st = "exited")

C5_Witness ==
    /\ Finished("runner")
    /\ Len(cancel_log) >= 2
    /\ cancel_log[1] = "running"
    /\ Len(signals) = 1

\* C6: the only signal the supervisor sends is the interrupt; finalize comes
\* only after the child exited by itself; and the final status of a
\* cancelled run is completed when the child's own exit code is 0, failed
\* with that code otherwise.
C6_InterruptOnlyThenNaturalExit ==
    /\ \A i \in 1..Len(signals) : signals[i] = "SIGINT"
    /\ (signals # << >> /\ finalize_calls > 0) => proc.st = "exited"
    /\ (signals # << >> /\ Finished("runner")) =>
          /\ return_code = Some(proc.code)
          /\ status = IF proc.code = 0 THEN "completed"
                      ELSE "failed (" \o ToString(proc.code) \o ")"

C6_Witness ==
    /\ Finished("runner")
    /\ signals = <<"SIGINT">>
    /\ proc.code = -2
    /\ status = "failed (-2)"

\* C7 as stated: when run_cp2k_process has the exit code and finalizes, the
\* reader has ended at end of file, and tail, the extractor's input and the
\* log each hold the child's lines, once each, in the order written.
C7_DrainedBeforeFinalize ==
    (pc["runner"] \in {"finalize", "done"} /\ proc.st = "exited") =>
        /\ pc["reader"] = "done"
        /\ proc.pipe = << >>
        /\ tail = proc.written
        /\ fed = proc.written
        /\ log = proc.written

\* C8: finalize is never called twice, and a run whose runner thread has
\* ended (child exited with any code, cancelled, or never launched) has
\* called it once.
C8_FinalizeExactlyOnce ==
    /\ finalize_calls <= 1
    /\ Finished("runner") => finalize_calls = 1

C8_Witness ==
    /\ Finished("runner")
    /\ proc.st = "none"
    /\ finalize_calls = 1

\* C9: after finalize(code), return_code is that code, done is set, and
\* status is completed exactly when the code is 0, failed with the code
\* otherwise.
C9_FinalizeSetsTerminal ==
    finalize_calls > 0 =>
        LET code == IF runner_rc # << >> THEN runner_rc[1] ELSE 1
        IN  /\ return_code = Some(code)
            /\ done
            /\ status = "completed" <=> code = 0
            /\ code # 0 => status = "failed (" \o ToString(code) \o ")"

C9_Witness ==
    /\ finalize_calls = 1
    /\ runner_rc = Some(2)
    /\ status = "failed (2)"
    /\ done

\* C10: whenever the state file exists it holds one complete snapshot, and
\* the renderer never reads a torn one, whatever the threads' write_snapshot
\* calls and the renderer's reads interleave to.
C10_SnapshotNeverTorn ==
    /\ fs[target_path] # << >> => Complete(fs[target_path][1])
    /\ seen # "torn"

C10_Witness ==
    /\ seen = "snapshot"
    /\ fs[target_path] # << >>
    /\ fs[target_path][1].by = "main"
    /\ writer["reader"].pc = "write"
    /\ fs[temp_path] # << >>
    /\ fs[temp_path][1].n = 1

---------------------------------------------------------------------------
(* SpecTail: append_tail called line after line on a fresh RunState with   *)
(* no state file; fed keeps every line given, in arrival order.            *)

MaxTailLines == 150

\* the n-th line of the output
NumberedLine(n) == Line("other", {}, <<Num(n)>>)

InitTail ==
    /\ InitStore
    /\ InitStream
    /\ InitNoRun
    /\ follow = TRUE
    /\ fed = << >>
    /\ raised = FALSE

\* append_tail(line): tail.append under the lock, then write_snapshot(),
\* which returns at once without a state file
TailAppend ==
    /\ Len(fed) < MaxTailLines
    /\ LET line == NumberedLine(Len(fed) + 1)
       IN  /\ tail' = DequeAppend(tail, line)
           /\ fed' = Append(fed, line)
    /\ ~state_file
    /\ UNCHANGED <<metrics, blocks, last_step, current_block, raised, status,
                   return_code, pid, done, cancel_requested, state_file,
                   streamVars, runVars, fileVars, extVars>>

NextTail == TailAppend

SpecTail == InitTail /\ [][NextTail]_vars

Min(a, b) == IF a <= b THEN a ELSE b

\* C11: after n append_tail calls tail holds the last min(n, 100) lines
\* given, in arrival order; after 150 lines these are lines 51 to 150.
C11_TailIsLastLines ==
    LET n == Len(fed)
        k == Min(n, 100)
    IN  /\ Len(tail) = k
        /\ \A i \in 1..k : tail[i] = fed[n - k + i]
        /\ n = 150 => /\ Len(tail) = 100
                      /\ \A i \in 1..100 : tail[i] = NumberedLine(50 + i)

C11_Witness ==
    /\ Len(fed) = 150
    /\ Len(tail) = 100
    /\ tail[1] = NumberedLine(51)
    /\ tail[100] = NumberedLine(150)

---------------------------------------------------------------------------
(* SpecSnap: snapshot() against the mutators.  The reader thread runs its  *)
(* loop body (append_tail, parse_line_for_metrics), the runner thread      *)
(* finalize, and the dashboard thread takes snapshots; what a mutator does *)
(* inside "with self.lock" in several statements takes several steps.      *)

MaxSnapLines == 4
MaxSnaps == 2

SnapLines == {Marker, Step12, ForceEval}

SnapCodes == {0, 2}

\* a thread that ignores the lock
LockIgnored == TRUE

\* with self.lock: the lock can be taken
LockAvailable == lock = "free"

InitSnap ==
    /\ InitStore
    /\ InitStream
    /\ InitNoRun
    /\ follow = TRUE
    /\ fed = << >>
    /\ raised = FALSE

\* reader: state.append_tail(raw_line)
SnapAppendTail ==
    \E line \in SnapLines :
        /\ LockAvailable
        /\ op.pc = "idle"
        /\ finalize_calls = 0
        /\ Len(fed) < MaxSnapLines
        /\ tail' = DequeAppend(tail, line)
        /\ op' = [pc |-> "parse", line |-> <<line>>, out |-> << >>]
        /\ UNCHANGED <<liveVars, status, return_code, pid, done, cancel_requested,
                       state_file, streamVars, runVars, fileVars, lock, snaps, call, outerVars>>

\* reader: parse_line_for_metrics(raw_line, state).  finalize_block and the
\* amending update_latest_block change blocks first and stay in the lock;
\* every other call changes one thing inside the lock
SnapParseBegin ==
    /\ LockAvailable
    /\ op.pc = "parse"
    /\ LET out == parse_line_for_metrics(op.line[1], TheStore)
       IN  /\ fed' = Append(fed, op.line[1])
           /\ raised' = out.raised
           /\ IF out.st.blocks # blocks
              THEN /\ blocks' = out.st.blocks
                   /\ lock' = "reader"
                   /\ op' = [op EXCEPT !.pc = "commit", !.out = <<out.st>>]
                   /\ UNCHANGED <<metrics, last_step, current_block, call, outerVars>>
              ELSE /\ current_block' = out.st.current_block
                   /\ metrics' = out.st.metrics
                   /\ last_step' = out.st.last_step
                   /\ op' = NoOp
                   /\ UNCHANGED <<blocks, lock, call, outerVars>>
    /\ UNCHANGED <<storeVars, streamVars, runVars, fileVars, snaps, call, outerVars>>

\* reader: the rest of finalize_block (metrics.add_block, _last_step,
\* _current_block = None) or of update_latest_block (_update_metric_value),
\* and the end of the with block
SnapParseCommit ==
    /\ op.pc = "commit"
    /\ metrics' = op.out[1].metrics
    /\ last_step' = op.out[1].last_step
    /\ current_block' = op.out[1].current_block
    /\ lock' = "free"
    /\ op' = NoOp
    /\ UNCHANGED <<blocks, fed, raised, storeVars, streamVars, runVars, fileVars,
                   snaps, call, outerVars>>

\* runner: finalize(return_code), self.return_code = return_code
SnapFinalizeBegin ==
    \E code \in SnapCodes :
        /\ LockAvailable
        /\ op.pc = "idle"
        /\ finalize_calls = 0
        /\ return_code' = Some(code)
        /\ lock' = "runner"
        /\ op' = [op EXCEPT !.pc = "finalize"]
        /\ UNCHANGED <<liveVars, tail, status, pid, done, cancel_requested,
                       state_file, streamVars, runVars, fileVars, snaps, call, outerVars>>

\* runner: finalize, self.status = ..., the end of the with block,
\* self.done.set()
SnapFinalizeEnd ==
    /\ op.pc = "finalize"
    /\ status' = FinalizeStatus(return_code[1])
    /\ done' = TRUE
    /\ finalize_calls' = finalize_calls + 1
    /\ lock' = "free"
    /\ op' = NoOp
    /\ UNCHANGED <<liveVars, tail, return_code, pid, cancel_requested, state_file,
                   streamVars, mode, pc, proc, log, signals, cur_line, runner_rc,
                   cancel_log, fileVars, snaps, call, outerVars>>

\* dict(block): the snapshot holds a copy of the record
BlockCopy(i) == [ref |-> FALSE, v |-> blocks[i], i |-> i]

\* what a snapshot's record reads as now
Deref(cell) == IF cell.ref THEN blocks[cell.i] ELSE cell.v

\* snapshot(): _snapshot_locked() inside the lock
snapshot ==
    [_snapshot_locked EXCEPT !.blocks = [i \in 1..Len(blocks) |-> BlockCopy(i)]]

SnapshotView(s) ==
    [s EXCEPT !.blocks = [i \in 1..Len(s.blocks) |-> Deref(s.blocks[i])]]

\* dashboard_loop: snap = state.snapshot()
SnapTake ==
    /\ LockAvailable
    /\ Len(snaps) < MaxSnaps
    /\ snaps' = Append(snaps, [snap |-> snapshot, at |-> _snapshot_locked])
    /\ UNCHANGED <<liveVars, storeVars, streamVars, runVars, fileVars, lock, op, call, outerVars>>

NextSnap ==
    \/ SnapAppendTail \/ SnapParseBegin \/ SnapParseCommit
    \/ SnapFinalizeBegin \/ SnapFinalizeEnd
    \/ SnapTake

SpecSnap == InitSnap /\ [][NextSnap]_vars

\* every record of the snapshot is in every series with the same values,
\* and the status is terminal exactly when the return code is there
WholeSnapshot(v) ==
    /\ \A k \in SeriesKeys :
          /\ Len(v.metrics[k]) = Len(v.blocks)
          /\ \A i \in 1..Len(v.blocks) : v.metrics[k][i] = Get(v.blocks[i], k)
    /\ v.return_code # << >> <=> v.status \notin {"launching", "running"}

\* C12: every snapshot returned reads, at any later time, as the RunState
\* was at the call, and that content holds no half-appended or half-amended
\* record and no half-made finalize.
C12_SnapshotAtomicCopy ==
    \A n \in 1..Len(snaps) :
        /\ SnapshotView(snaps[n].snap) = snaps[n].at
        /\ WholeSnapshot(snaps[n].at)

C12_Witness ==
    /\ Len(snaps) = 2
    /\ Len(snaps[1].at.blocks) = 1
    /\ blocks[1] # snaps[1].at.blocks[1]
    /\ status = "failed (2)"
    /\ snaps[2].at.status = "launching"
    /\ Len(snaps[2].at.tail) = 4

---------------------------------------------------------------------------
(* SpecAmend: lines fed to parse_line_for_metrics, and update_latest_block *)
(* called directly with any key and value; call keeps the last call.       *)

MaxAmendLines == 4

AmendLines == {Marker, Step12, Potential, ForceEval}

AmendKeys == {"total_energy", "potential_inst"}

AmendValues == {None, Fin(-9000), Fin(-8000)}

InitAmend == InitLive

AmendFeed ==
    \E line \in AmendLines :
        /\ ~raised
        /\ Len(fed) < MaxAmendLines
        /\ LET out == parse_line_for_metrics(line, TheStore)
           IN  /\ current_block' = out.st.current_block
               /\ blocks' = out.st.blocks
               /\ metrics' = out.st.metrics
               /\ last_step' = out.st.last_step
               /\ raised' = out.raised
        /\ fed' = Append(fed, line)
        /\ call' = [NoCall EXCEPT !.name = "parse_line_for_metrics"]
        /\ UNCHANGED <<storeVars, streamVars, runVars, fileVars, lock, op, snaps, outerVars>>

\* state.update_latest_block(key=value)
AmendCall ==
    \E key \in AmendKeys, value \in AmendValues :
        /\ ~raised
        /\ LET st == update_latest_block(TheStore, key, value)
           IN  /\ current_block' = st.current_block
               /\ blocks' = st.blocks
               /\ metrics' = st.metrics
               /\ last_step' = st.last_step
        /\ call' = [name |-> "update_latest_block", key |-> key, value |-> value,
                    before |-> <<TheStore>>, after |-> << >>]
        /\ UNCHANGED <<fed, raised, storeVars, streamVars, runVars, fileVars,
                       lock, op, snaps, outerVars>>

NextAmend == AmendFeed \/ AmendCall

SpecAmend == InitAmend /\ [][NextAmend]_vars

\* C13: after update_latest_block(key=value) with no block open, the
\* records before the last are unchanged, the last record has every key it
\* had, each with its old value except the amendment's key when its value is
\* not None, no other key is new, and without any record nothing changes.
C13_AmendKeepsFields ==
    (call.name = "update_latest_block" /\ call.before[1].current_block = NoBlock) =>
        LET b == call.before[1]
            n == Len(b.blocks)
        IN  /\ Len(blocks) = n
            /\ current_block = NoBlock
            /\ n = 0 => metrics = b.metrics
            /\ \A i \in 1..(n - 1) : blocks[i] = b.blocks[i]
            /\ n > 0 =>
                  /\ DOMAIN b.blocks[n] \subseteq DOMAIN blocks[n]
                  /\ \A k \in DOMAIN blocks[n] :
                        IF k = call.key /\ call.value # None
                        THEN blocks[n][k] = call.value
                        ELSE k \in DOMAIN b.blocks[n] /\ blocks[n][k] = b.blocks[n][k]

C13_Witness ==
    /\ call.name = "update_latest_block"
    /\ call.before[1].current_block = NoBlock
    /\ Len(blocks) = 1
    /\ call.key = "total_energy"
    /\ call.value = Fin(-8000)
    /\ Get(call.before[1].blocks[1], "total_energy") = Fin(-9000)
    /\ Get(blocks[1], "total_energy") = Fin(-8000)
    /\ Get(blocks[1], "step") = IntV(12)
    /\ Get(blocks[1], "potential_inst") = Fin(-10500)

---------------------------------------------------------------------------
(* bin/view_dashboard.py: finalize_block(block, store, blocks)             *)

ViewKeys ==
    {"step", "time_fs", "conserved_energy", "cpu_time_per_step",
     "cpu_time_per_step_avg", "energy_drift_inst", "energy_drift_avg",
     "potential_inst", "potential_avg", "kinetic_inst", "kinetic_avg",
     "temperature_inst", "temperature_avg", "total_energy", "total_energy_avg",
     "overlap_energy_core", "self_energy_core", "core_hamiltonian_energy",
     "hartree_energy", "exchange_correlation_energy", "dispersion_energy"}

EmptyViewStore == [k \in ViewKeys |-> << >>]

\* block.setdefault(key, value)
SetDefault(d, k, v) == IF k \in DOMAIN d THEN d ELSE Put(d, k, v)

\* the two setdefault calls of view_dashboard.finalize_block
ViewDeriveTotals(block) ==
    LET pot == Get(block, "potential_inst")
        kin == Get(block, "kinetic_inst")
        b1 == IF pot # None /\ kin # None
              THEN SetDefault(block, "total_energy", FloatAdd(pot, kin))
              ELSE block
        pot_avg == Get(b1, "potential_avg")
        kin_avg == Get(b1, "kinetic_avg")
    IN  IF pot_avg # None /\ kin_avg # None
        THEN SetDefault(b1, "total_energy_avg", FloatAdd(pot_avg, kin_avg))
        ELSE b1

\* view_dashboard.finalize_block: what it leaves in block, store and blocks
view_finalize_block(block, store, vblocks) ==
    IF "step" \notin DOMAIN block
    THEN [block |-> block, store |-> store, blocks |-> vblocks]
    ELSE LET b == ViewDeriveTotals(block)
         IN  [block |-> b,
              store |-> [k \in ViewKeys |->
                            Append(store[k], IF Get(b, k) # None THEN b[k] ELSE NaN)],
              blocks |-> Append(vblocks, b)]

---------------------------------------------------------------------------
(* SpecFinalize: one open record, with any of its fields present, given to *)
(* each extractor's finalize step.                                         *)

FinFields ==
    [step |-> IntV(12), potential_inst |-> Fin(-10500), kinetic_inst |-> Fin(20),
     potential_avg |-> Fin(-10400), kinetic_avg |-> Fin(21),
     total_energy |-> Fin(-9000), total_energy_avg |-> Fin(-9100)]

\* the records holding any subset of the fields
FinRecords == {[k \in S |-> FinFields[k]] : S \in SUBSET (DOMAIN FinFields)}

InitFinalize ==
    \E r \in FinRecords :
        /\ current_block = Some(r)
        /\ current = Some(r)
        /\ call = [NoCall EXCEPT !.name = "input", !.before = <<r>>]
        /\ tail = << >>
        /\ metrics = EmptyMetrics
        /\ blocks = << >>
        /\ status = "launching"
        /\ return_code = << >>
        /\ pid = << >>
        /\ done = FALSE
        /\ cancel_requested = FALSE
        /\ last_step = << >>
        /\ state_file = FALSE
        /\ inside_md = TRUE
        /\ yielded = << >>
        /\ s_raised = FALSE
        /\ eof = FALSE
        /\ follow = TRUE
        /\ fed = << >>
        /\ raised = FALSE
        /\ mode = "none"
        /\ pc = [t \in Threads |-> "idle"]
        /\ proc = NoProc
        /\ log = << >>
        /\ signals = << >>
        /\ cur_line = << >>
        /\ runner_rc = << >>
        /\ finalize_calls = 0
        /\ cancel_log = << >>
        /\ InitFiles
        /\ lock = "free"
        /\ op = NoOp
        /\ snaps = << >>
        /\ env = NoEnv
        /\ outcome = NoOut
        /\ rend = NoRend
        /\ InitClock

\* RunState.finalize_block()
FinRunState ==
    /\ call.name = "input"
    /\ LET st == finalize_block(TheStore)
       IN  /\ current_block' = st.current_block
           /\ blocks' = st.blocks
           /\ metrics' = st.metrics
           /\ last_step' = st.last_step
    /\ call' = [call EXCEPT !.name = "RunState.finalize_block"]
    /\ UNCHANGED <<fed, raised, storeVars, streamVars, runVars, fileVars,
                   lock, op, snaps, outerVars>>

\* md_live_plot: yield finalize_record(current); the record is changed in
\* place and a copy is returned
FinRecord ==
    /\ call.name = "input"
    /\ yielded' = Append(yielded, finalize_record(current[1]))
    /\ current' = Some(finalize_record(current[1]))
    /\ call' = [call EXCEPT !.name = "finalize_record"]
    /\ UNCHANGED <<liveVars, storeVars, inside_md, s_raised, follow, eof, runVars,
                   fileVars, lock, op, snaps, outerVars>>

\* view_dashboard: finalize_block(current, store, blocks) on an empty store
FinView ==
    /\ call.name = "input"
    /\ call' = [call EXCEPT
                   !.name = "view_dashboard.finalize_block",
                   !.after = <<view_finalize_block(call.before[1], EmptyViewStore,
                                                   << >>)>>]
    /\ UNCHANGED <<liveVars, storeVars, streamVars, runVars, fileVars,
                   lock, op, snaps, outerVars>>

NextFinalize == FinRunState \/ FinRecord \/ FinView

SpecFinalize == InitFinalize /\ [][NextFinalize]_vars

\* the total of record after is the one of record before when that had
\* one, the sum of the two operands when both are there, and absent
\* otherwise
TotalRule(before, after, tot, pot, kin) ==
    IF Get(before, tot) # None THEN Get(after, tot) = Get(before, tot)
    ELSE IF Get(before, pot) # None /\ Get(before, kin) # None
    THEN Get(after, tot) = FloatAdd(Get(before, pot), Get(before, kin))
    ELSE Get(after, tot) = None

TotalRules(before, after) ==
    /\ TotalRule(before, after, "total_energy", "potential_inst", "kinetic_inst")
    /\ TotalRule(before, after, "total_energy_avg", "potential_avg", "kinetic_avg")

\* C14: in RunState.finalize_block, finalize_record and
\* view_dashboard.finalize_block a total already in the record is left as
\* it is, and a missing total is set to potential + kinetic exactly when
\* both are present.
C14_TotalNeverOverwritten ==
    LET r == call.before[1]
    IN  /\ call.name = "RunState.finalize_block" =>
              IF "step" \in DOMAIN r
              THEN Len(blocks) = 1 /\ TotalRules(r, blocks[1])
              ELSE blocks = << >>
        /\ call.name = "finalize_record" =>
              /\ Len(yielded) = 1
              /\ TotalRules(r, yielded[1])
              /\ TotalRules(r, current[1])
        /\ call.name = "view_dashboard.finalize_block" =>
              IF "step" \in DOMAIN r
              THEN /\ Len(call.after[1].blocks) = 1
                   /\ TotalRules(r, call.after[1].blocks[1])
                   /\ TotalRules(r, call.after[1].block)
              ELSE call.after[1].blocks = << >>

C14_Witness ==
    /\ call.name = "view_dashboard.finalize_block"
    /\ call.before[1] = FinFields
    /\ Get(call.after[1].blocks[1], "total_energy") = Fin(-9000)
    /\ Get(call.after[1].blocks[1], "total_energy_avg") = Fin(-9100)

---------------------------------------------------------------------------
(* SpecMain: main() from its arguments to its exit, in every environment. *)
(* The supervised run is taken in two steps: the launch of the child and  *)
(* its exit with finalize.                                                *)

EnvInputs ==
    [inp : {"exists", "missing", "none"},
     cp2k_arg : {"none", "exists", "missing"},
     cp2k_on_path : BOOLEAN,
     dashboard : {"auto", "streamlit", "curses", "none"},
     no_dashboard : BOOLEAN,
     streamlit : BOOLEAN,
     app : BOOLEAN,
     tty : BOOLEAN,
     curses_import : BOOLEAN,
     curses_loop : BOOLEAN,
     code : {0, 2}]

\* the file cp2k names can be executed
BinaryExists ==
    \/ env.cp2k_arg = "exists"
    \/ env.cp2k_arg = "none" /\ env.cp2k_on_path

InitMain ==
    /\ InitStore
    /\ InitStream
    /\ InitFiles
    /\ follow = TRUE
    /\ fed = << >>
    /\ raised = FALSE
    /\ mode = "unset"
    /\ pc = [t \in Threads |-> IF t = "main" THEN "check_inp" ELSE "idle"]
    /\ proc = NoProc
    /\ log = << >>
    /\ signals = << >>
    /\ cur_line = << >>
    /\ runner_rc = << >>
    /\ finalize_calls = 0
    /\ cancel_log = << >>
    /\ lock = "free"
    /\ op = NoOp
    /\ snaps = << >>
    /\ call = NoCall
    /\ env \in EnvInputs
    /\ outcome = NoOut
    /\ rend = NoRend
    /\ InitClock

\* how the interpreter ends: SystemExit(message) and an uncaught exception
\* give exit code 1, parser.error gives 2, sys.exit(main()) the value
Exit(kind, code) == <<[kind |-> kind, code |-> code]>>

\* inp = args.inp or default_inp(...); parser.error; SystemExit
MainCheckInp ==
    /\ At("main", "check_inp")
    /\ IF env.inp = "none"
       THEN outcome' = [outcome EXCEPT !.exit = Exit("usage", 2)] /\ Goto("main", "exited")
       ELSE IF env.inp = "missing"
       THEN outcome' = [outcome EXCEPT !.exit = Exit("SystemExit", 1)]
            /\ Goto("main", "exited")
       ELSE outcome' = outcome /\ Goto("main", "find_cp2k")
    /\ UNCHANGED <<liveVars, storeVars, streamVars, runRest, fileVars, lock, op,
                   snaps, call, clockVars, env, rend>>

\* cp2k = args.cp2k or which("cp2k.psmp") or which("cp2k")
MainFindCp2k ==
    /\ At("main", "find_cp2k")
    /\ IF env.cp2k_arg = "none" /\ ~env.cp2k_on_path
       THEN outcome' = [outcome EXCEPT !.exit = Exit("SystemExit", 1)]
            /\ Goto("main", "exited")
       ELSE outcome' = outcome /\ Goto("main", "select")
    /\ UNCHANGED <<liveVars, storeVars, streamVars, runRest, fileVars, lock, op,
                   snaps, call, clockVars, env, rend>>

\* dashboard_mode from --dashboard, --no-dashboard and the auto choice
SelectedMode ==
    IF env.no_dashboard THEN "none"
    ELSE IF env.dashboard # "auto" THEN env.dashboard
    ELSE IF env.streamlit THEN "streamlit"
    ELSE IF env.tty THEN "curses"
    ELSE "none"

MainSelectMode ==
    /\ At("main", "select")
    /\ mode' = SelectedMode
    /\ Goto("main", IF SelectedMode = "streamlit" THEN "launch" ELSE "dispatch")
    /\ UNCHANGED <<liveVars, storeVars, streamVars, proc, log, signals, cur_line,
                   runner_rc, finalize_calls, cancel_log, fileVars, extVars>>

\* dashboard_mode = "curses" if _isatty() else "none"
FallbackMode == IF env.tty THEN "curses" ELSE "none"

\* launch_streamlit: no streamlit executable, it returns None
MainLaunchNoStreamlit ==
    /\ At("main", "launch")
    /\ ~env.streamlit
    /\ mode' = FallbackMode
    /\ Goto("main", "dispatch")
    /\ UNCHANGED <<liveVars, storeVars, streamVars, proc, log, signals, cur_line,
                   runner_rc, finalize_calls, cancel_log, fileVars, extVars>>

\* launch_streamlit: set_state_file(state_path); write_snapshot(force=True),
\* which leaves a whole snapshot in the state file or, on an OSError, nothing
MainLaunchState ==
    /\ At("main", "launch")
    /\ env.streamlit
    /\ state_file' = TRUE
    /\ \/ fs' = fs
       \/ fs' = [fs EXCEPT ![target_path] =
                    <<[snap |-> _snapshot_locked, n |-> Chunks, by |-> "main",
                       mixed |-> FALSE]>>]
    /\ Goto("main", "launch_app")
    /\ UNCHANGED <<liveVars, tail, status, return_code, pid, done, cancel_requested,
                   streamVars, runRest, writer, seen, extVars>>

\* launch_streamlit: the app file is missing and it returns None, or the
\* renderer is started
MainLaunchApp ==
    /\ At("main", "launch_app")
    /\ IF env.app
       THEN /\ outcome' = [outcome EXCEPT !.renderer_spawned = TRUE]
            /\ mode' = mode
       ELSE /\ outcome' = outcome
            /\ mode' = FallbackMode
    /\ Goto("main", "dispatch")
    /\ UNCHANGED <<liveVars, storeVars, streamVars, proc, log, signals, cur_line,
                   runner_rc, finalize_calls, cancel_log, fileVars, lock, op, snaps,
                   call, clockVars, env, rend>>

\* the three branches of main: streamlit, curses on a terminal, basic_run
\* after set_state_file(None)
MainDispatch ==
    /\ At("main", "dispatch")
    /\ IF mode = "streamlit" \/ (mode = "curses" /\ env.tty)
       THEN /\ pc' = [pc EXCEPT !["main"] = IF mode = "streamlit" THEN "join"
                                            ELSE "dashboard_loop",
                                !["runner"] = "mark_running"]
            /\ state_file' = state_file
       ELSE /\ Goto("main", "basic_run")
            /\ state_file' = FALSE
    /\ UNCHANGED <<liveVars, tail, status, return_code, pid, done, cancel_requested,
                   streamVars, runRest, fileVars, extVars>>

\* the runner thread, run_cp2k_process up to set_pid: mark_status, Popen and
\* the log file; when Popen raises, the worker's except clause
SupLaunch ==
    /\ At("runner", "mark_running")
    /\ pc["main"] # "exited"
    /\ IF BinaryExists
       THEN /\ status' = "running"
            /\ proc' = [proc EXCEPT !.st = "running"]
            /\ pid' = Some(4242)
            /\ outcome' = [outcome EXCEPT !.child_spawned = TRUE, !.log_created = TRUE,
                                          !.launches = Append(@, "runner")]
            /\ Goto("runner", "poll")
            /\ UNCHANGED <<tail, return_code, done, finalize_calls>>
       ELSE /\ tail' = DequeAppend(tail, DashboardError)
            /\ finalize(DashboardErrorCode)
            /\ Goto("runner", "done")
            /\ UNCHANGED <<proc, pid, outcome>>
    /\ UNCHANGED <<liveVars, cancel_requested, state_file, streamVars, mode, log,
                   signals, cur_line, runner_rc, cancel_log, fileVars, lock, op,
                   snaps, call, clockVars, env, rend>>

\* the runner thread: the child exits, the reader is joined, proc.wait(),
\* finalize(return_code)
SupComplete ==
    /\ At("runner", "poll")
    /\ pc["main"] # "exited"
    /\ proc' = [proc EXCEPT !.st = "exited", !.code = env.code]
    /\ runner_rc' = Some(env.code)
    /\ finalize(env.code)
    /\ Goto("runner", "done")
    /\ UNCHANGED <<liveVars, tail, pid, cancel_requested, state_file, streamVars,
                   mode, log, signals, cur_line, cancel_log, fileVars, extVars>>

\* dashboard_loop: the curses import fails and it returns; curses.wrapper
\* raises; or the loop runs until q or done
MainDashboardLoop ==
    /\ At("main", "dashboard_loop")
    /\ IF env.curses_import /\ ~env.curses_loop
       THEN /\ outcome' = [outcome EXCEPT !.exit = Exit("exception", 1)]
            /\ Goto("main", "exited")
       ELSE /\ outcome' = outcome
            /\ Goto("main", "join")
    /\ UNCHANGED <<liveVars, storeVars, streamVars, runRest, fileVars, lock, op,
                   snaps, call, clockVars, env, rend>>

\* a main that does not look at state.return_code
StateReturnCodeIgnored == Some(1)

\* state.return_code if state.return_code is not None else 1
StateReturnCode == IF return_code # << >> THEN return_code ELSE Some(1)

\* runner.join(); in the streamlit branch the finally clause; then
\* return_code = state.return_code if state.return_code is not None else 1
MainJoinRun ==
    /\ At("main", "join")
    /\ pc["runner"] = "done"
    /\ fs' = IF mode = "streamlit" THEN [name \in {"tmp", "file"} |-> << >>] ELSE fs
    /\ outcome' = [outcome EXCEPT !.rc = StateReturnCode]
    /\ Goto("main", "print")
    /\ UNCHANGED <<liveVars, storeVars, streamVars, runRest, writer, seen, lock, op,
                   snaps, call, clockVars, env, rend>>

\* basic_run: open(logfile, "w"), Popen, proc.wait()
MainBasicRun ==
    /\ At("main", "basic_run")
    /\ IF BinaryExists
       THEN /\ proc' = [proc EXCEPT !.st = "exited", !.code = env.code]
            /\ outcome' = [outcome EXCEPT !.log_created = TRUE,
                                          !.child_spawned = TRUE,
                                          !.launches = Append(@, "basic_run"),
                                          !.rc = Some(env.code)]
            /\ Goto("main", "print")
       ELSE /\ proc' = proc
            /\ outcome' = [outcome EXCEPT !.log_created = TRUE,
                                          !.exit = Exit("exception", 1)]
            /\ Goto("main", "exited")
    /\ UNCHANGED <<liveVars, storeVars, streamVars, mode, log, signals, cur_line,
                   runner_rc, finalize_calls, cancel_log, fileVars, lock, op, snaps,
                   call, clockVars, env, rend>>

\* print(json.dumps({... "return_code": return_code})); return return_code
MainPrint ==
    /\ At("main", "print")
    /\ outcome' = [outcome EXCEPT
                      !.stdout = Append(@, [return_code |-> outcome.rc[1]]),
                      !.exit = Exit("return", outcome.rc[1])]
    /\ Goto("main", "exited")
    /\ UNCHANGED <<liveVars, storeVars, streamVars, runRest, fileVars, lock, op,
                   snaps, call, clockVars, env, rend>>

NextMain ==
    \/ MainCheckInp \/ MainFindCp2k \/ MainSelectMode
    \/ MainLaunchNoStreamlit \/ MainLaunchState \/ MainLaunchApp
    \/ MainDispatch \/ SupLaunch \/ SupComplete
    \/ MainDashboardLoop \/ MainJoinRun \/ MainBasicRun \/ MainPrint

SpecMain == InitMain /\ [][NextMain]_vars

MainExited == outcome.exit # << >>

\* C15 as stated: with an input file and a binary path that does not exist,
\* main ends as a precondition failure, with no process spawned and no log
\* file created.
C15_MissingBinaryIsPrecondition ==
    (MainExited /\ env.inp = "exists" /\ ~BinaryExists) =>
        /\ outcome.exit[1].kind = "SystemExit"
        /\ ~outcome.child_spawned
        /\ ~outcome.renderer_spawned
        /\ ~outcome.log_created

\* C16 as stated: whatever renderer backend is missing, with an input file
\* and a binary main returns the child's exit code after the child ran to
\* its end.
C16_RendererNeverFailsRun ==
    (MainExited /\ env.inp = "exists" /\ BinaryExists) =>
        /\ outcome.exit[1] = [kind |-> "return", code |-> env.code]
        /\ proc.st = "exited"

\* C17: when main returns, the value it returns is the one in the JSON line
\* it printed last, and it is the child's exit code when the child was run
\* and 1 when the child could not be launched; when main ends by SystemExit
\* or by an exception the exit code is 1.
C17_ExitCodeIsChilds ==
    MainExited =>
        LET e == outcome.exit[1]
        IN  /\ e.kind = "return" =>
                  /\ outcome.stdout = <<[return_code |-> e.code]>>
                  /\ e.code = IF proc.st = "exited" THEN proc.code ELSE 1
                  /\ proc.st = "exited" <=> BinaryExists
            /\ e.kind \in {"SystemExit", "exception"} =>
                  /\ e.code = 1
                  /\ outcome.stdout = << >>

C17_Witness ==
    /\ MainExited
    /\ mode = "curses"
    /\ env.dashboard = "streamlit"
    /\ env.code = 2
    /\ outcome.exit = Exit("return", 2)
    /\ status = "failed (2)"

---------------------------------------------------------------------------
(* SpecRender: the streamlit renderer script against the state file.  One *)
(* step of the renderer is one run of the script; the supervisor's side   *)
(* is the launch, the status changes and the snapshot writes; the user's  *)
(* side is the Refresh button.                                            *)

MaxPolls == 3

RenderCodes == {0, 2}

InitRender ==
    /\ InitStore
    /\ InitStream
    /\ InitNoRun
    /\ follow = TRUE
    /\ fed = << >>
    /\ raised = FALSE

\* a whole snapshot in the state file
WholeFile(by) ==
    [fs EXCEPT ![target_path] =
        <<[snap |-> _snapshot_locked, n |-> Chunks, by |-> by, mixed |-> FALSE]>>]

\* launch_streamlit: set_state_file, write_snapshot(force=True), which may
\* fail with an OSError and leave no file, then the renderer is started
RendLaunch ==
    /\ rend.pc = "none"
    /\ state_file' = TRUE
    /\ fs' \in {fs, WholeFile("main")}
    /\ rend' = [rend EXCEPT !.pc = "run"]
    /\ UNCHANGED <<liveVars, tail, status, return_code, pid, done, cancel_requested,
                   streamVars, runVars, writer, seen, lock, op, snaps, call, env,
                   outcome, clockVars>>

\* run_cp2k_process: mark_status("running")
RendMarkRunning ==
    /\ rend.pc # "none"
    /\ status = "launching"
    /\ status' = "running"
    /\ UNCHANGED <<liveVars, tail, return_code, pid, done, cancel_requested,
                   state_file, streamVars, runVars, fileVars, extVars>>

\* run_cp2k_process: finalize(return_code)
RendFinalize ==
    \E code \in RenderCodes :
        /\ status = "running"
        /\ finalize(code)
        /\ UNCHANGED <<liveVars, tail, pid, cancel_requested, state_file, streamVars,
                       mode, pc, proc, log, signals, cur_line, runner_rc, cancel_log,
                       fileVars, extVars>>

\* a write_snapshot of the supervisor that reaches the state file
RendWrite ==
    /\ state_file
    /\ fs' = WholeFile("runner")
    /\ UNCHANGED <<liveVars, storeVars, streamVars, runVars, writer, seen, extVars>>

\* state.get("status") in {"completed", "failed"}
RenderTerminal(s) == s \in {"completed", "failed"}

\* one run of the script: load_state, render or the waiting message,
\* st.stop() on a terminal status, and the sleep and rerun that follow a
\* state that was loaded
RendRun ==
    /\ rend.pc = "run"
    /\ seen' = load_state
    /\ IF load_state = "snapshot"
       THEN LET s == fs[target_path][1].snap.status
            IN  rend' = [pc |-> IF RenderTerminal(s) THEN "stopped" ELSE "run",
                         shown |-> s,
                         polls |-> Min(rend.polls + 1, MaxPolls)]
       ELSE rend' = [pc |-> "ended", shown |-> "waiting",
                     polls |-> Min(rend.polls + 1, MaxPolls)]
    /\ UNCHANGED <<liveVars, storeVars, streamVars, runVars, writer, fs, lock, op,
                   snaps, call, clockVars, env, outcome>>

\* the user presses "Refresh dashboard": the script runs again
RendRefreshClick ==
    /\ rend.pc \in {"ended", "stopped"}
    /\ rend' = [rend EXCEPT !.pc = "run"]
    /\ UNCHANGED <<liveVars, storeVars, streamVars, runVars, fileVars, lock, op,
                   snaps, call, clockVars, env, outcome>>

NextRender ==
    \/ RendLaunch \/ RendMarkRunning \/ RendFinalize \/ RendWrite
    \/ RendRun \/ RendRefreshClick

\* the script runs whenever it is due; nothing makes the user press a button
SpecRender == InitRender /\ [][NextRender]_vars /\ WF_vars(RendRun)

\* C18 as stated: once the renderer is running and a snapshot of a running
\* job is in the state file, a snapshot is eventually on display, with no
\* user action needed.
C18_EventuallyRendered ==
    (rend.pc # "none" /\ load_state = "snapshot"
        /\ fs[target_path][1].snap.status = "running")
    ~> (rend.shown \notin {"nothing", "waiting"})


---------------------------------------------------------------------------
(* SpecTable: lines are fed to parse_line_for_metrics, the snapshot is     *)
(* written to the state file as JSON, and the external renderer loads the  *)
(* file and builds its table.  snaps keeps the snapshot that was written,  *)
(* seen the document json.load returned, rend.shown the rendered table.    *)

MaxTableLines == 7

PotentialNan == Line(" MD|", {"potential energy"}, <<Word, TokNan, Num(-10400)>>)

TableLines == {Marker, Step12, Step13, Potential, PotentialNan}

\* json.dump of one value: null, an integer literal, the float's repr (which
\* reads back exactly), or the bare words NaN and Infinity
JsonToken(x) ==
    CASE x.t = "none" -> [j |-> "null", v |-> 0]
      [] x.t = "int" -> [j |-> "integer", v |-> x.v]
      [] x.t = "fin" -> [j |-> "real", v |-> x.v]
      [] x.t = "nan" -> [j |-> "NaN", v |-> 0]
      [] x.t = "inf" -> [j |-> "Infinity", v |-> 0]

\* json.load of one token
JsonValue(tok) ==
    CASE tok.j = "null" -> None
      [] tok.j = "integer" -> IntV(tok.v)
      [] tok.j = "real" -> Fin(tok.v)
      [] tok.j = "NaN" -> NaN
      [] tok.j = "Infinity" -> Inf

\* json.dump(snapshot, handle, indent=2): the text of the "blocks" member
json_dump(snap) ==
    [snap EXCEPT !.blocks =
        [i \in 1..Len(snap.blocks) |->
            [k \in DOMAIN snap.blocks[i] |-> JsonToken(snap.blocks[i][k])]]]

\* json.load(handle)
json_load(text) ==
    [text EXCEPT !.blocks =
        [i \in 1..Len(text.blocks) |->
            [k \in DOMAIN text.blocks[i] |-> JsonValue(text.blocks[i][k])]]]

column_order ==
    <<"step", "time_fs", "conserved_energy", "cpu_time_per_step",
      "cpu_time_per_step_avg", "energy_drift_inst", "energy_drift_avg",
      "potential_inst", "potential_avg", "kinetic_inst", "kinetic_avg",
      "temperature_inst", "temperature_avg", "total_energy", "total_energy_avg",
      "overlap_energy_core", "self_energy_core", "core_hamiltonian_energy",
      "hartree_energy", "exchange_correlation_energy", "dispersion_energy">>

InSeq(x, s) == \E i \in DOMAIN s : s[i] = x

\* df.columns of pd.DataFrame(blocks): every key of every dict
Columns(bs) == UNION {DOMAIN bs[i] : i \in 1..Len(bs)}

\* a cell pandas holds as missing: the key is not in the dict, or its value
\* is None or a float nan
Missing(b, c) == c \notin DOMAIN b \/ b[c].t \in {"none", "nan"}

\* the column keeps int64 only when every row has an integer in it
IntColumn(bs, c) == \A i \in 1..Len(bs) : c \in DOMAIN bs[i] /\ bs[i][c].t = "int"

Cell(bs, i, c) ==
    IF Missing(bs[i], c) THEN NaN
    ELSE IF bs[i][c].t = "int" /\ ~IntColumn(bs, c) THEN Fin(bs[i][c].v * 1000)
    ELSE bs[i][c]

\* pd.DataFrame(blocks): one row per dict, labelled 0, 1, ...
DataFrame(bs) ==
    [i \in 1..Len(bs) |->
        [label |-> i - 1, cells |-> [c \in Columns(bs) |-> Cell(bs, i, c)]]]

\* the sort key of a step cell, in thousandths
StepKey(x) == IF x.t = "int" THEN x.v * 1000 ELSE x.v

\* rows in the order df.sort_values("step") can leave them: non-decreasing
\* step, missing steps last, equal steps in any order
StepOrdered(rows) ==
    \A i, j \in 1..Len(rows) :
        i < j =>
            \/ rows[j].cells["step"] = NaN
            \/ /\ rows[i].cells["step"] # NaN
               /\ StepKey(rows[i].cells["step"]) <= StepKey(rows[j].cells["step"])

Reordered(rows, p) == [i \in 1..Len(rows) |-> rows[p[i]]]

Orders(n) == {p \in [1..n -> 1..n] : \A i, j \in 1..n : i # j => p[i] # p[j]}

\* existing + remaining
TableColumns(cols) ==
    LET existing == SelectSeq(column_order, LAMBDA c : c \in cols)
        rest == {c \in cols : ~InSeq(c, column_order)}
    IN  [columns |-> existing, remaining |-> rest]

InitTable == InitLive

TableFeed ==
    \E line \in TableLines :
        /\ ~raised
        /\ ~state_file
        /\ Len(fed) < MaxTableLines
        /\ LET out == parse_line_for_metrics(line, TheStore)
           IN  /\ current_block' = out.st.current_block
               /\ blocks' = out.st.blocks
               /\ metrics' = out.st.metrics
               /\ last_step' = out.st.last_step
               /\ raised' = out.raised
        /\ fed' = Append(fed, line)
        /\ UNCHANGED <<storeVars, streamVars, runVars, fileVars, extVars>>

\* state.set_state_file(path); state.write_snapshot(force=True)
TableWrite ==
    /\ ~state_file
    /\ state_file' = TRUE
    /\ snaps' = <<[snap |-> _snapshot_locked, at |-> _snapshot_locked]>>
    /\ fs' = [fs EXCEPT ![target_path] =
                 <<[snap |-> json_dump(_snapshot_locked), n |-> Chunks,
                    by |-> "main", mixed |-> FALSE]>>]
    /\ UNCHANGED <<liveVars, tail, status, return_code, pid, done, cancel_requested,
                   streamVars, runVars, writer, seen, lock, op, call, outerVars>>

NoTable == [info |-> "Waiting for MD steps...", columns |-> << >>, rows |-> << >>]

\* one run of the renderer's script: state = load_state(); render(state),
\* the table part
TableRender ==
    /\ load_state = "snapshot"
    /\ rend.pc = "none"
    /\ LET state == json_load(fs[target_path][1].snap)
           cols == Columns(state.blocks)
           df == DataFrame(state.blocks)
       IN  /\ seen' = state
           /\ IF state.blocks = << >>
              THEN rend' = [pc |-> "run", shown |-> NoTable, polls |-> 1]
              ELSE \E p \in Orders(Len(df)) :
                       LET sorted == IF "step" \in cols THEN Reordered(df, p) ELSE df
                       IN  /\ "step" \in cols => StepOrdered(sorted)
                           /\ "step" \notin cols => p = [i \in 1..Len(df) |-> i]
                           /\ rend' = [pc |-> "run",
                                       shown |-> [info |-> "",
                                                  columns |-> TableColumns(cols).columns,
                                                  rows |-> sorted],
                                       polls |-> 1]
    /\ UNCHANGED <<liveVars, storeVars, streamVars, runVars, writer, fs,
                   lock, op, snaps, call, clockVars, env, outcome>>

NextTable == TableFeed \/ TableWrite \/ TableRender

SpecTable == InitTable /\ [][NextTable]_vars

\* the fields of a record that are not None
NonNullFields(b) == {k \in DOMAIN b : b[k] # None}

\* the cells of a row that are not missing
NonNullCells(row) == {c \in DOMAIN row.cells : row.cells[c] # NaN}

\* the number a value stands for, in thousandths
Number(x) == IF x.t = "int" THEN [x EXCEPT !.t = "fin", !.v = @ * 1000] ELSE x

\* C19: the table rendered from a persisted snapshot has one row per record
\* of the snapshot's blocks, and the row of each record has exactly the
\* record's non-null fields as its non-null cells, with the same values.
C19_TableEquivalent ==
    rend.pc = "run" =>
        LET bs == snaps[1].snap.blocks
            rows == rend.shown.rows
        IN  /\ Len(rows) = Len(bs)
            /\ \A i \in 1..Len(bs) :
                   \E j \in 1..Len(rows) :
                       /\ rows[j].label = i - 1
                       /\ \A k \in 1..Len(rows) : rows[k].label = i - 1 => k = j
                       /\ NonNullCells(rows[j]) = NonNullFields(bs[i])
                       /\ \A c \in NonNullFields(bs[i]) :
                              Number(rows[j].cells[c]) = Number(bs[i][c])


---------------------------------------------------------------------------
(* The lifecycle status of the supervised run *)

\* a status finalize can set
TerminalStatus(s) == \E code \in ExitCodes \cup {DashboardErrorCode} : s = FinalizeStatus(code)

\* C20: in every step of a supervised run, status either stays or moves
\* from launching to running or from running to completed or failed (code),
\* return_code is set only in the step that makes the status terminal, and
\* once the status is terminal no step changes status or return_code.
C20_StatusOnlyForward ==
    [][/\ status' # status =>
            \/ status = "launching" /\ status' = "running"
            \/ status = "running" /\ TerminalStatus(status')
       /\ return_code' # return_code => ~TerminalStatus(status) /\ TerminalStatus(status')
       /\ TerminalStatus(status) => status' = status /\ return_code' = return_code]_vars

\* a failed run after the whole supervisor has ended: the status went
\* through its chain and every later operation ran
C20_Witness ==
    /\ pc["main"] = "exit"
    /\ Finished("runner")
    /\ status = "failed (-2)"
    /\ return_code = Some(-2)


---------------------------------------------------------------------------
(* SpecExtract: lines fed one at a time to parse_line_for_metrics on a     *)
(* fresh RunState: two step lines, a field line and its repeat with other  *)
(* values, and the two terminal-scalar lines.                              *)

MaxExtractLines == 5

PotentialAgain == Line(" MD|", {"potential energy"}, <<Word, Num(-9500), Num(-9400)>>)

ExtractLines ==
    {Marker, Step12, Step13, Potential, PotentialAgain, ForceEval, TotalEnergyLine}

InitExtract == InitLive

ExtractFeed ==
    \E line \in ExtractLines :
        /\ ~raised
        /\ Len(fed) < MaxExtractLines
        /\ LET out == parse_line_for_metrics(line, TheStore)
           IN  /\ current_block' = out.st.current_block
               /\ blocks' = out.st.blocks
               /\ metrics' = out.st.metrics
               /\ last_step' = out.st.last_step
               /\ raised' = out.raised
        /\ fed' = Append(fed, line)
        /\ UNCHANGED <<storeVars, streamVars, runVars, fileVars, extVars>>

NextExtract == ExtractFeed

SpecExtract == InitExtract /\ [][NextExtract]_vars

\* the step indices of the records, in order
Steps(bs) == [i \in 1..Len(bs) |-> Get(bs[i], "step")]

\* C21 as stated: after a marker opened a record, 'Step number 12' followed
\* directly by 'Step number 13' leaves the record of step 12 in blocks and
\* the record of step 13 open; a closing marker then leaves both steps in
\* blocks, each once.
C21_BothStepsKept ==
    /\ fed = <<Marker, Step12, Step13>> =>
           /\ Steps(blocks) = <<IntV(12)>>
           /\ current_block # NoBlock
           /\ Get(current_block[1], "step") = IntV(13)
    /\ fed = <<Marker, Step12, Step13, Marker>> =>
           Steps(blocks) = <<IntV(12), IntV(13)>>


\* C22 as stated: with a record open, a terminal-scalar line ('ENERGY| Total
\* FORCE_EVAL ...' or 'Total energy:') appends the record to blocks, with the
\* scalar as its total_energy, and leaves no record open.
C22_TerminalScalarFinalizes ==
    /\ fed = <<Marker, Step12, ForceEval>> =>
           /\ current_block = NoBlock
           /\ Steps(blocks) = <<IntV(12)>>
           /\ Get(blocks[1], "total_energy") = Fin(-10000)
    /\ fed = <<Marker, Step12, TotalEnergyLine>> =>
           /\ current_block = NoBlock
           /\ Steps(blocks) = <<IntV(12)>>

\* C23 as stated: a field recognized twice inside one open record keeps the
\* values of the first line in the finalized record.
C23_FirstWriteWins ==
    fed = <<Marker, Step12, Potential, PotentialAgain, Marker>> =>
        /\ Len(blocks) = 1
        /\ Get(blocks[1], "potential_inst") = Fin(-10500)
        /\ Get(blocks[1], "potential_avg") = Fin(-10400)


---------------------------------------------------------------------------
(* view_dashboard.parse_log, one line at a time.  A line of the replayed   *)
(* log also tells which keys its text holds in lower case as written       *)
(* (exact); keys are the keys its lower-cased text holds.                  *)

CasedLine(pre, keys, exact, toks) ==
    [pre |-> pre, keys |-> keys, exact |-> exact, toks |-> toks]

\* the locals of parse_log: current, inside_md, store, blocks
VState(cur, im, store, bs, r) ==
    [current |-> cur, inside_md |-> im, store |-> store, blocks |-> bs, raised |-> r]

\* stripped.startswith(MD_PREFIX)
StartsWithMDPrefix(line) == line.pre \in {" MD|", " MD| ***", "MD|"}

\* if current: finalize_block(current, store, blocks)
ViewFlush(st) ==
    IF Truthy(st.current)
    THEN LET f == view_finalize_block(st.current[1], st.store, st.blocks)
         IN  [st EXCEPT !.store = f.store, !.blocks = f.blocks]
    ELSE st

\* the field keys parse_log tests inside an MD block, in order: the key, the
\* two fields, and whether the key is looked up in lower (TRUE) or in
\* stripped (FALSE)
ViewChain ==
    << <<"time [fs]", "time_fs", "time_fs", FALSE>>,
       <<"conserved quantity", "conserved_energy", "conserved_energy", FALSE>>,
       <<"cpu time per md step", "cpu_time_per_step", "cpu_time_per_step_avg", TRUE>>,
       <<"energy drift per atom", "energy_drift_inst", "energy_drift_avg", TRUE>>,
       <<"potential energy", "potential_inst", "potential_avg", TRUE>>,
       <<"kinetic energy", "kinetic_inst", "kinetic_avg", TRUE>>,
       <<"temperature", "temperature_inst", "temperature_avg", TRUE>> >>

ViewKeyIn(line, i) ==
    IF ViewChain[i][4] THEN ViewChain[i][1] \in line.keys
    ELSE ViewChain[i][1] \in line.exact

RECURSIVE ViewFields(_, _, _)
ViewFields(line, rec, i) ==
    LET values == Numbers(line)
    IN  IF i > Len(ViewChain) \/ values = << >> THEN rec
        ELSE IF ViewKeyIn(line, i)
        THEN IF ViewChain[i][2] = ViewChain[i][3]
             THEN Put(rec, ViewChain[i][2], values[1])
             ELSE PutIfNotNone(Put(rec, ViewChain[i][2], values[1]),
                               ViewChain[i][3], Second(values))
        ELSE ViewFields(line, rec, i + 1)

\* the "step number" branch, the key looked up in stripped
ViewStartStep(line, st) ==
    LET flushed == ViewFlush(st)
    IN  IF StepFloatRaises(LastPart(line)) THEN [flushed EXCEPT !.raised = TRUE]
        ELSE [flushed EXCEPT
                 !.current = Some(Put(EmptyDict, "step", _to_float(LastPart(line)))),
                 !.inside_md = TRUE]

\* a line outside the MD block while a record is open
ViewPostLine(line, st) ==
    LET values == Numbers(line)
        rec == st.current[1]
    IN  IF values = << >> THEN st
        ELSE IF PostKeyMatch(line)
        THEN [st EXCEPT !.current =
                 Some(Put(rec, PostKeys[FirstPostKey(line)][2], values[1]))]
        ELSE IF "total energy:" \in line.keys
        THEN LET f == view_finalize_block(Put(rec, "total_energy", values[1]),
                                          st.store, st.blocks)
             IN  [st EXCEPT !.current = NoBlock, !.store = f.store, !.blocks = f.blocks]
        ELSE IF "total force_eval" \in line.keys
        THEN LET f == view_finalize_block(Put(rec, "total_energy", Last(values)),
                                          st.store, st.blocks)
             IN  [st EXCEPT !.current = NoBlock, !.store = f.store, !.blocks = f.blocks]
        ELSE st

\* one iteration of the loop of parse_log
parse_log(line, st) ==
    IF StartsWithMDPrefix(line)
    THEN LET r == IF "step number" \in line.exact THEN ViewStartStep(line, st)
                  ELSE IF st.inside_md /\ Truthy(st.current)
                  THEN [st EXCEPT !.current = Some(ViewFields(line, st.current[1], 1))]
                  ELSE st
         IN  IF ~r.raised /\ "md| ***" \in line.keys
             THEN [r EXCEPT !.inside_md = FALSE]
             ELSE r
    ELSE IF st.current = NoBlock THEN st
    ELSE ViewPostLine(line, st)

---------------------------------------------------------------------------
(* SpecView: parse_log reading a log whose MD lines come as CP2K writes    *)
(* them ('Step number') and in lower case; call.before and call.after are  *)
(* its locals before and after the last line.                              *)

MaxViewLines == 4

ViewStep == CasedLine(" MD|", {"step number"}, {}, <<Num(12000)>>)
ViewStepLower == CasedLine(" MD|", {"step number"}, {"step number"}, <<Num(12000)>>)
ViewTime == CasedLine(" MD|", {"time [fs]"}, {}, <<Word, Num(500)>>)
ViewTimeLower == CasedLine(" MD|", {"time [fs]"}, {"time [fs]"}, <<Word, Num(500)>>)
ViewConserved == CasedLine(" MD|", {"conserved quantity"}, {}, <<Word, Num(-10480)>>)
ViewConservedLower ==
    CasedLine(" MD|", {"conserved quantity"}, {"conserved quantity"}, <<Word, Num(-10480)>>)
ViewPotential ==
    CasedLine(" MD|", {"potential energy"}, {}, <<Word, Num(-10500), Num(-10400)>>)
ViewMarker == CasedLine(" MD| ***", {"md| ***"}, {}, << >>)
ViewForceEval ==
    CasedLine("other", {"energy|", "total force_eval"}, {}, <<Word, Num(-10000)>>)

ViewLines ==
    {ViewStep, ViewStepLower, ViewTime, ViewTimeLower, ViewConserved,
     ViewConservedLower, ViewPotential, ViewMarker, ViewForceEval}

ViewStart == VState(NoBlock, FALSE, EmptyViewStore, << >>, FALSE)

InitView ==
    /\ InitStore
    /\ InitStream
    /\ mode = "none"
    /\ pc = [t \in Threads |-> "idle"]
    /\ proc = NoProc
    /\ log = << >>
    /\ signals = << >>
    /\ cur_line = << >>
    /\ runner_rc = << >>
    /\ finalize_calls = 0
    /\ cancel_log = << >>
    /\ InitFiles
    /\ lock = "free"
    /\ op = NoOp
    /\ snaps = << >>
    /\ env = NoEnv
    /\ outcome = NoOut
    /\ rend = NoRend
    /\ InitClock
    /\ follow = FALSE
    /\ fed = << >>
    /\ raised = FALSE
    /\ call = [NoCall EXCEPT !.name = "parse_log", !.after = <<ViewStart>>]

\* for raw in handle: ...
ViewLine ==
    \E line \in ViewLines :
        /\ call.name = "parse_log"
        /\ ~call.after[1].raised
        /\ Len(fed) < MaxViewLines
        /\ fed' = Append(fed, line)
        /\ call' = [call EXCEPT !.before = call.after,
                                !.after = <<parse_log(line, call.after[1])>>]
        /\ UNCHANGED <<metrics, blocks, last_step, current_block, raised, storeVars,
                       streamVars, runVars, fileVars, lock, op, snaps, outerVars>>

\* after the loop: if current: finalize_block(...); store["blocks"] = blocks
ViewEndOfFile ==
    /\ call.name = "parse_log"
    /\ ~call.after[1].raised
    /\ call' = [call EXCEPT !.name = "parse_log returned",
                            !.before = call.after,
                            !.after = <<[ViewFlush(call.after[1]) EXCEPT !.current = NoBlock]>>]
    /\ UNCHANGED <<liveVars, storeVars, streamVars, runVars, fileVars,
                   lock, op, snaps, outerVars>>

NextView == ViewLine \/ ViewEndOfFile

SpecView == InitView /\ [][NextView]_vars

\* the line with every key also present in lower case as written
LowerCased(line) == [line EXCEPT !.exact = line.keys]

\* C24 as stated: whatever the letter case of its keys, a line leaves
\* parse_log's record, store and blocks as its lower-case form would.
C24_CaseInsensitiveKeys ==
    (call.name = "parse_log" /\ fed # << >>) =>
        call.after[1] = parse_log(LowerCased(fed[Len(fed)]), call.before[1])


---------------------------------------------------------------------------
(* md_live_plot's data store *)

\* init_data_store()
init_data_store == [k \in ViewKeys |-> << >>]

\* an append_record that takes records without a step index too
append_recordAlways(store, record) ==
    [k \in ViewKeys |-> Append(store[k], IF k \in DOMAIN record THEN record[k] ELSE NaN)]

\* append_record(store, record)
append_record(store, record) ==
    IF Get(record, "step") = None THEN store
    ELSE [k \in ViewKeys |->
             Append(store[k], IF k \in DOMAIN record THEN record[k] ELSE NaN)]

\* append_record for each record of a sequence, in order
RECURSIVE AppendRecords(_, _)
AppendRecords(store, records) ==
    IF records = << >> THEN store
    ELSE AppendRecords(append_record(store, Head(records)), Tail(records))

---------------------------------------------------------------------------
(* SpecSeries: one log read by one of the three programs: run_cp2k's live  *)
(* extractor filling RunState, view_dashboard.parse_log filling its store  *)
(* (call.after), or md_live_plot appending the records md_block_stream     *)
(* yields to its data store (call.after).  mode is the program.            *)

Programs == {"run_cp2k", "view_dashboard", "md_live_plot"}

InitSeries ==
    /\ InitStore
    /\ InitStream
    /\ mode \in Programs
    /\ pc = [t \in Threads |-> "idle"]
    /\ proc = NoProc
    /\ log = << >>
    /\ signals = << >>
    /\ cur_line = << >>
    /\ runner_rc = << >>
    /\ finalize_calls = 0
    /\ cancel_log = << >>
    /\ InitFiles
    /\ lock = "free"
    /\ op = NoOp
    /\ snaps = << >>
    /\ env = NoEnv
    /\ outcome = NoOut
    /\ rend = NoRend
    /\ InitClock
    /\ follow = FALSE
    /\ fed = << >>
    /\ raised = FALSE
    /\ call = IF mode = "view_dashboard"
              THEN [NoCall EXCEPT !.name = "parse_log", !.after = <<ViewStart>>]
              ELSE IF mode = "md_live_plot"
              THEN [NoCall EXCEPT !.name = "md_live_plot", !.after = <<init_data_store>>]
              ELSE NoCall

SeriesLive == mode = "run_cp2k" /\ ExtractFeed

SeriesView == mode = "view_dashboard" /\ (ViewLine \/ ViewEndOfFile)

\* for record in md_block_stream(...): append_record(data_store, record),
\* for a line that was read
PlotLine ==
    \E line \in StreamLines :
        /\ mode = "md_live_plot"
        /\ ~s_raised /\ ~eof
        /\ Len(fed) < MaxStreamLines
        /\ LET r == md_block_stream(line, current, inside_md)
           IN  /\ current' = r.current
               /\ inside_md' = r.inside_md
               /\ yielded' = yielded \o r.yields
               /\ s_raised' = r.raised
               /\ call' = [call EXCEPT !.before = call.after,
                              !.after = <<AppendRecords(call.after[1], r.yields)>>]
        /\ fed' = Append(fed, line)
        /\ UNCHANGED <<storeVars, follow, eof, metrics, blocks, last_step,
                       current_block, raised, runVars, fileVars, lock, op, snaps,
                       outerVars>>

\* the same at the end of the input, with --read-once
PlotEndOfInput ==
    /\ mode = "md_live_plot"
    /\ ~s_raised /\ ~eof
    /\ LET ys == IF Truthy(current) THEN <<finalize_record(current[1])>> ELSE << >>
       IN  /\ yielded' = yielded \o ys
           /\ call' = [call EXCEPT !.before = call.after,
                          !.after = <<AppendRecords(call.after[1], ys)>>]
    /\ eof' = TRUE
    /\ UNCHANGED <<storeVars, liveVars, current, inside_md, s_raised, follow,
                   runVars, fileVars, lock, op, snaps, outerVars>>

NextSeries == SeriesLive \/ SeriesView \/ PlotLine \/ PlotEndOfInput

SpecSeries == InitSeries /\ [][NextSeries]_vars

HasStep(record) == Get(record, "step") # None

\* the records without a step index
StepLess == {r \in FinRecords : ~HasStep(r)}

\* C25: every record in blocks (RunState's, parse_log's) and every record
\* given to the data store has a step index; a step of the live extractor
\* that closes an open record without a step index leaves blocks and every
\* series as they were; and append_record leaves the data store as it was
\* for a record without a step index.
C25_OnlyWithStep ==
    [][/\ mode = "run_cp2k" =>
              /\ \A i \in 1..Len(blocks') : HasStep(blocks'[i])
              /\ (current_block # NoBlock /\ ~HasStep(current_block[1])
                    /\ current_block' = NoBlock)
                     => blocks' = blocks /\ metrics' = metrics
       /\ mode = "view_dashboard" =>
              \A i \in 1..Len(call'.after[1].blocks) : HasStep(call'.after[1].blocks[i])
       /\ mode = "md_live_plot" =>
              /\ \A i \in 1..Len(yielded') : HasStep(yielded'[i])
              /\ \A r \in StepLess : append_record(call'.after[1], r) = call'.after[1]]_vars

\* a record with a field and no step index was closed by the marker
C25_Witness ==
    /\ mode = "run_cp2k"
    /\ fed = <<Marker, Potential, Marker>>
    /\ current_block = NoBlock
    /\ blocks = << >>
    /\ \A k \in SeriesKeys : metrics[k] = << >>

\* C26: all series of RunState.metrics are as long as blocks, all lists of
\* parse_log's store are as long as its blocks, and all lists of
\* md_live_plot's data store are as long as the records yielded.
C26_SeriesSameLength ==
    /\ mode = "run_cp2k" => \A k \in SeriesKeys : Len(metrics[k]) = Len(blocks)
    /\ mode = "view_dashboard" =>
           \A k \in ViewKeys : Len(call.after[1].store[k]) = Len(call.after[1].blocks)
    /\ mode = "md_live_plot" =>
           \A k \in ViewKeys : Len(call.after[1][k]) = Len(yielded)

\* a record was finalized and then amended by update_latest_block
C26_Witness ==
    /\ mode = "run_cp2k"
    /\ fed = <<Marker, Step12, Potential, Marker, ForceEval>>
    /\ Len(blocks) = 1
    /\ metrics["total_energy"] = <<Fin(-10000)>>


---------------------------------------------------------------------------
(* Status changes and the persisted snapshot *)

\* C27 as stated: with a state file configured, every step that changes
\* status starts a forced write_snapshot in the thread that made the change.
C27_StatusChangeForcesWrite ==
    [][(status' # status /\ state_file) =>
           \E t \in Threads :
               /\ writer[t].pc = "idle"
               /\ writer'[t].pc = "call"
               /\ writer'[t].force]_vars


---------------------------------------------------------------------------
(* SpecRate: write_snapshot called forced and unforced while time passes.  *)
(* snaps keeps every snapshot the call went on to write, with its time;    *)
(* call is the last call: its argument, the clock and                      *)
(* _last_snapshot_write it found, and how it ended.                        *)

MaxTicks == 8
MaxWrites == 3

\* a write_snapshot without the rate limit
RateLimitedNever(force, elapsed) == FALSE

\* not force and (now - self._last_snapshot_write) < 0.5
RateLimited(force, elapsed) == ~force /\ elapsed < RateInterval

InitRate == InitLive

\* state.set_state_file(path)
RateSetStateFile ==
    /\ ~state_file
    /\ state_file' = TRUE
    /\ UNCHANGED <<liveVars, tail, status, return_code, pid, done, cancel_requested,
                   streamVars, runVars, fileVars, extVars>>

\* time passes
RateTick ==
    /\ now < StartTime + MaxTicks
    /\ now' = now + 1
    /\ UNCHANGED <<liveVars, storeVars, streamVars, runVars, fileVars,
                   lock, op, snaps, call, env, outcome, rend, last_snapshot_write>>

\* write_snapshot(force): the whole call; open, json.dump or os.replace may
\* fail with OSError after the lock section
RateWrite ==
    \E force \in BOOLEAN, ok \in BOOLEAN :
        /\ Len(snaps) < MaxWrites
        /\ LET result == IF ~state_file THEN "no state file"
                         ELSE IF RateLimited(force, now - last_snapshot_write)
                         THEN "skipped"
                         ELSE IF ok THEN "written" ELSE "OSError"
           IN  /\ call' = [name |-> "write_snapshot", force |-> force, at |-> now,
                           last |-> last_snapshot_write, result |-> result]
               /\ IF result \in {"written", "OSError"}
                  THEN /\ last_snapshot_write' = now
                       /\ snaps' = Append(snaps, [snap |-> _snapshot_locked, at |-> now,
                                                  force |-> force])
                  ELSE UNCHANGED <<last_snapshot_write, snaps>>
               /\ fs' = IF result = "written" THEN WholeFile("main") ELSE fs
               /\ result # "written" => ok
        /\ UNCHANGED <<liveVars, storeVars, streamVars, runVars, writer, seen,
                       lock, op, env, outcome, rend, now>>

NextRate == RateSetStateFile \/ RateTick \/ RateWrite

SpecRate == InitRate /\ [][NextRate]_vars

\* C28: an unforced write_snapshot goes on to write only when at least
\* RateInterval has passed since the previous write, forced or not, so any
\* two unforced writes are at least RateInterval apart; a call is skipped
\* only when it is unforced and less than RateInterval has passed; a forced
\* call with a state file is never skipped.
C28_UnforcedRateLimited ==
    /\ \A i \in 2..Len(snaps) :
           ~snaps[i].force => snaps[i].at - snaps[i - 1].at >= RateInterval
    /\ \A i, j \in 1..Len(snaps) :
           (i < j /\ ~snaps[i].force /\ ~snaps[j].force)
               => snaps[j].at - snaps[i].at >= RateInterval
    /\ call.name = "write_snapshot" =>
           /\ call.result = "skipped" =>
                  ~call.force /\ call.at - call.last < RateInterval
           /\ (~call.force /\ call.result \in {"written", "OSError"}) =>
                  call.at - call.last >= RateInterval
           /\ call.force => call.result # "skipped"

\* a forced write, an unforced one RateInterval later, and then an unforced
\* call, a tick after it, that was skipped
C28_Witness ==
    /\ Len(snaps) = 2
    /\ snaps[1].force /\ ~snaps[2].force
    /\ snaps[2].at = snaps[1].at + RateInterval
    /\ call.name = "write_snapshot"
    /\ call.result = "skipped"
    /\ call.at = snaps[2].at + 1


---------------------------------------------------------------------------
(* Persistence failures *)

\* C29: a step in which a thread's write_snapshot ends, with the file
\* replaced or with an OSError at any of its file operations, leaves the
\* thread where its caller was and the RunState's content as the calling
\* mutation left it; the runner's except clause is entered from Popen only.
C29_WriteFailureSwallowed ==
    [][/\ \A t \in Threads :
              (writer[t].pc \in {"open", "write", "replace"} /\ writer'[t].pc = "idle")
                  => /\ pc'[t] = pc[t]
                     /\ <<tail, status, return_code, pid, done, blocks, metrics>>'
                            = <<tail, status, return_code, pid, done, blocks, metrics>>
       /\ (pc'["runner"] = "except" /\ pc["runner"] # "except")
              => pc["runner"] = "popen"]_vars

\* a run with the streamlit dashboard has ended as completed, with every
\* line of the child in tail, and no write of the state file ever
\* succeeded
C29_Witness ==
    /\ mode = "streamlit"
    /\ state_file
    /\ fs[target_path] = << >>
    /\ pc["main"] \notin {"cleanup", "exit"}
    /\ Finished("runner")
    /\ status = "completed"
    /\ Len(tail) = MaxChildLines
    /\ tail = proc.written


---------------------------------------------------------------------------
(* SpecCancel: the external renderer with its cancel button, beside a      *)
(* supervisor that marks the run running, records the pid, finalizes and   *)
(* writes snapshots.  op.pc is the button: "idle" (not on the page),       *)
(* "offered" or "clicked"; signals are the signals the renderer has sent.  *)

MaxKills == 2


\* run_cp2k_process: state.set_pid(proc.pid or 0)
RendSetPid ==
    /\ status = "running"
    /\ pid = << >>
    /\ pid' = Some(4242)
    /\ UNCHANGED <<liveVars, tail, status, return_code, done, cancel_requested,
                   state_file, streamVars, runVars, fileVars, extVars>>

\* status not in {"completed", "failed"} and pid
CancelOffered(state) == ~RenderTerminal(state.status) /\ state.pid # << >>

\* one run of the script with its buttons: load_state; render, where the
\* cancel button is put on the page when CancelOffered and, when it was
\* clicked, os.kill(int(pid), signal.SIGINT) is called; then st.stop() on a
\* terminal status, or the sleep and rerun
RendScript ==
    /\ rend.pc = "run"
    /\ seen' = load_state
    /\ IF load_state = "snapshot"
       THEN LET state == fs[target_path][1].snap
            IN  /\ rend' = [pc |-> IF RenderTerminal(state.status) THEN "stopped"
                                   ELSE "run",
                            shown |-> state.status,
                            polls |-> Min(rend.polls + 1, MaxPolls)]
                /\ op' = [op EXCEPT !.pc = IF CancelOffered(state) THEN "offered"
                                           ELSE "idle"]
                /\ signals' = IF CancelOffered(state) /\ op.pc = "clicked"
                              THEN Append(signals, "SIGINT")
                              ELSE signals
       ELSE /\ rend' = [pc |-> "ended", shown |-> "waiting",
                        polls |-> Min(rend.polls + 1, MaxPolls)]
            /\ op' = [op EXCEPT !.pc = "idle"]
            /\ signals' = signals
    /\ UNCHANGED <<liveVars, storeVars, streamVars, mode, pc, proc, log, cur_line,
                   runner_rc, finalize_calls, cancel_log, writer, fs, lock, snaps,
                   call, clockVars, env, outcome>>

\* the user presses "Cancel CP2K run", which makes the script run again
RendCancelClick ==
    /\ rend.pc = "run"
    /\ op.pc = "offered"
    /\ Len(signals) < MaxKills
    /\ op' = [op EXCEPT !.pc = "clicked"]
    /\ UNCHANGED <<liveVars, storeVars, streamVars, runVars, fileVars, lock, snaps,
                   call, outerVars>>

NextCancel ==
    \/ RendLaunch \/ RendMarkRunning \/ RendSetPid \/ RendFinalize \/ RendWrite
    \/ RendScript \/ RendCancelClick \/ RendRefreshClick

SpecCancel == InitRender /\ [][NextCancel]_vars

\* the state file holds a snapshot whose status finalize has set
PersistedTerminal ==
    /\ load_state = "snapshot"
    /\ TerminalStatus(fs[target_path][1].snap.status)

\* C30 as stated: in a step taken while the persisted status is completed
\* or failed (code), the renderer sends no signal and does not put the
\* cancel button on the page, and a run of its script ends the polling.
C30_NoCancelAfterTerminal ==
    [][PersistedTerminal =>
           /\ signals' = signals
           /\ op'.pc = "offered" => fs' # fs
           /\ (rend.pc = "run" /\ rend'.polls # rend.polls) => rend'.pc = "stopped"]_vars


---------------------------------------------------------------------------
(* C31: what the curses renderer does to the RunState *)

\* a step of the main thread while it is in dashboard_loop
DashboardStep ==
    /\ pc["main"] = "dashboard"
    /\ pc'["main"] # "dashboard" \/ cancel_log' # cancel_log

\* C31: a step of the redraw loop changes no RunState field except that the
\* cancel key sets the cancel flag; leaving the loop (the quit key, or the
\* run being done) changes no field at all and sends no signal, and no
\* signal is ever sent to the child unless the cancel key was pressed.
C31_RendererOnlyRelaysCancel ==
    /\ [][DashboardStep =>
             /\ UNCHANGED <<metrics, blocks, last_step, current_block, tail,
                            status, return_code, pid, done, state_file, signals>>
             /\ cancel_requested' # cancel_requested =>
                    cancel_requested' /\ cancel_log' # cancel_log
             /\ pc'["main"] # "dashboard" =>
                    cancel_requested' = cancel_requested]_vars
    /\ [](cancel_log = << >> => signals = << >> /\ ~cancel_requested)

\* the quit key was pressed while the run was going on: the main thread has
\* left the loop, the child still runs, no cancellation, no signal
C31_Witness ==
    /\ mode = "curses"
    /\ pc["main"] = "join"
    /\ ~done
    /\ status = "running"
    /\ proc.st = "running"
    /\ Len(proc.written) = MaxChildLines
    /\ ~cancel_requested
    /\ signals = << >>


---------------------------------------------------------------------------
(* SpecLoop: dashboard_loop's redraw loop against the clock.  The main     *)
(* thread is at the top of the loop ("dashboard"), in getch, at the done   *)
(* check, in the grace sleep, or out of the loop ("join"); call holds the  *)
(* times getch and the sleep began, the time finalize set the done event   *)
(* (0: not yet) and the last key.  Erasing, taking the snapshot and        *)
(* drawing take no time; getch returns at a key or after GetchTimeout.     *)

MaxLoopTicks == 16

\* stdscr.timeout(200), in tenths of a second
GetchTimeout == 2

\* time.sleep(0.5), and the 0.5 state.runtime() is compared with
GracePeriod == 5

NoLoop == [name |-> "dashboard_loop", getch_at |-> 0, sleep_at |-> 0,
           done_at |-> 0, key |-> "none"]

InitLoop ==
    /\ InitStore
    /\ InitStream
    /\ InitFiles
    /\ lock = "free"
    /\ op = NoOp
    /\ snaps = << >>
    /\ call = NoLoop
    /\ env = NoEnv
    /\ outcome = NoOut
    /\ rend = NoRend
    /\ InitClock
    /\ follow = TRUE
    /\ fed = << >>
    /\ raised = FALSE
    /\ mode = "curses"
    /\ pc = [t \in Threads |-> IF t = "main" THEN "dashboard" ELSE "idle"]
    /\ proc = NoProc
    /\ log = << >>
    /\ signals = << >>
    /\ cur_line = << >>
    /\ runner_rc = << >>
    /\ finalize_calls = 0
    /\ cancel_log = << >>

\* state.runtime()
runtime == now - StartTime

\* stdscr.erase() ... stdscr.refresh(), then ch = stdscr.getch() begins
LoopDraw ==
    /\ pc["main"] = "dashboard"
    /\ Goto("main", "getch")
    /\ call' = [call EXCEPT !.getch_at = now]
    /\ UNCHANGED <<liveVars, storeVars, streamVars, runRest, fileVars, lock, op,
                   snaps, clockVars, env, outcome, rend>>

\* getch returns a key: q breaks, c calls request_cancel()
LoopKey ==
    \E ch \in {"q", "c"} :
        /\ pc["main"] = "getch"
        /\ Goto("main", IF ch = "q" THEN "join" ELSE "check")
        /\ cancel_requested' = (cancel_requested \/ ch = "c")
        /\ call' = [call EXCEPT !.key = ch]
        /\ UNCHANGED <<liveVars, tail, status, return_code, pid, done, state_file,
                       streamVars, runRest, fileVars, lock, op, snaps, clockVars,
                       env, outcome, rend>>

\* getch returns -1 after its timeout
LoopTimeout ==
    /\ pc["main"] = "getch"
    /\ now = call.getch_at + GetchTimeout
    /\ Goto("main", "check")
    /\ call' = [call EXCEPT !.key = "none"]
    /\ UNCHANGED <<liveVars, storeVars, streamVars, runRest, fileVars, lock, op,
                   snaps, clockVars, env, outcome, rend>>

\* a loop that never leaves on the done event
LoopDoneTargetNever == "dashboard"

\* if state.done.is_set(): if state.runtime() > 0.5: time.sleep(0.5); break
LoopDoneTarget == IF runtime > GracePeriod THEN "sleep" ELSE "join"

LoopCheckDone ==
    /\ pc["main"] = "check"
    /\ Goto("main", IF done THEN LoopDoneTarget ELSE "dashboard")
    /\ call' = [call EXCEPT !.sleep_at = now]
    /\ UNCHANGED <<liveVars, storeVars, streamVars, runRest, fileVars, lock, op,
                   snaps, clockVars, env, outcome, rend>>

\* time.sleep(0.5) returns; break
LoopSleepEnd ==
    /\ pc["main"] = "sleep"
    /\ now = call.sleep_at + GracePeriod
    /\ Goto("main", "join")
    /\ UNCHANGED <<liveVars, storeVars, streamVars, runRest, fileVars, lock, op,
                   snaps, call, clockVars, env, outcome, rend>>

\* the runner thread: state.finalize(return_code) sets the done event
LoopFinalize ==
    \E rc \in ExitCodes :
        /\ ~done
        /\ finalize(rc)
        /\ call' = [call EXCEPT !.done_at = now]
        /\ UNCHANGED <<liveVars, tail, pid, cancel_requested, state_file,
                       streamVars, mode, pc, proc, log, signals, cur_line,
                       runner_rc, cancel_log, fileVars, lock, op, snaps,
                       clockVars, env, outcome, rend>>

\* a tenth of a second passes: not at a step that takes no time, not past
\* the end of getch's timeout or of the sleep
LoopTick ==
    /\ now < StartTime + MaxLoopTicks
    /\ pc["main"] \in {"getch", "sleep", "join"}
    /\ pc["main"] = "getch" => now < call.getch_at + GetchTimeout
    /\ pc["main"] = "sleep" => now < call.sleep_at + GracePeriod
    /\ now' = now + 1
    /\ UNCHANGED <<liveVars, storeVars, streamVars, runVars, fileVars, lock, op,
                   snaps, call, last_snapshot_write, env, outcome, rend>>

NextLoop ==
    \/ LoopDraw \/ LoopKey \/ LoopTimeout \/ LoopCheckDone \/ LoopSleepEnd
    \/ LoopFinalize \/ LoopTick

SpecLoop == InitLoop /\ [][NextLoop]_vars

---------------------------------------------------------------------------
(* SpecReplay: md_block_stream with follow=False on a file of at most      *)
(* MaxStreamLines lines.  readline() always returns, a line or the end of  *)
(* the file, so the loop keeps taking steps until it returns or raises.    *)

InitReplay ==
    /\ InitStreamSpec
    /\ ~follow

NextReplay == StreamLine \/ StreamEndOfInput

SpecReplay == InitReplay /\ [][NextReplay]_vars /\ WF_vars(NextReplay)

\* C33: with follow=False the generator ends (it returns at the end of the
\* input, unless a line made it raise before); when it has returned, the
\* records it yielded are one for each block start followed by a terminal
\* scalar or another block start, plus the record still open at the end of
\* the input, which is the last one yielded and is yielded once; and
\* nothing is yielded after the return.
C33_ReplayFlushesOnce ==
    /\ <>(eof \/ s_raised)
    /\ [](eof =>
            LET pend == PendingStart(fed)
                closed == FollowedStarts(fed, TRUE, TRUE, FALSE)
            IN  /\ Cardinality(pend) <= 1
                /\ Len(yielded) = Cardinality(closed) + Cardinality(pend)
                /\ \A i \in pend :
                      /\ i \notin closed
                      /\ yielded[Len(yielded)]["step"] = StepOfLine(fed[i]))
    /\ [][eof => yielded' = yielded]_vars

\* one record yielded by the next block start, one by a terminal scalar,
\* and the open one flushed at the end of the input
C33_Witness ==
    /\ eof
    /\ fed = <<Step12, Step13, ForceEval, Step12>>
    /\ Len(yielded) = 3
    /\ yielded[3]["step"] = Fin(12000)


---------------------------------------------------------------------------
(* SpecEquiv: the same log given line by line to parse_line_for_metrics    *)
(* (RunState), to md_block_stream with follow=False (current, inside_md,   *)
(* yielded) and to view_dashboard.parse_log (call.after), then the end of  *)
(* the input.                                                              *)

MaxEquivLines == 4

EquivStep13 == CasedLine(" MD|", {"step number"}, {"step number"}, <<Num(13000)>>)

EquivLines ==
    {ViewStep, ViewStepLower, EquivStep13, ViewPotential, ViewMarker, ViewForceEval}

InitEquiv == InitView

EquivLine ==
    \E line \in EquivLines :
        /\ ~eof /\ ~raised /\ ~s_raised /\ ~call.after[1].raised
        /\ Len(fed) < MaxEquivLines
        /\ fed' = Append(fed, line)
        /\ LET out == parse_line_for_metrics(line, TheStore)
           IN  /\ current_block' = out.st.current_block
               /\ blocks' = out.st.blocks
               /\ metrics' = out.st.metrics
               /\ last_step' = out.st.last_step
               /\ raised' = out.raised
        /\ LET r == md_block_stream(line, current, inside_md)
           IN  /\ current' = r.current
               /\ inside_md' = r.inside_md
               /\ yielded' = yielded \o r.yields
               /\ s_raised' = r.raised
        /\ call' = [call EXCEPT !.before = call.after,
                                !.after = <<parse_log(line, call.after[1])>>]
        /\ UNCHANGED <<storeVars, follow, eof, runVars, fileVars, lock, op, snaps,
                       outerVars>>

\* the end of the log: the two replay extractors flush, the RunState is
\* left as the last line left it
EquivEndOfInput ==
    /\ ~eof /\ ~raised /\ ~s_raised /\ ~call.after[1].raised
    /\ eof' = TRUE
    /\ yielded' = IF Truthy(current) THEN Append(yielded, finalize_record(current[1]))
                  ELSE yielded
    /\ call' = [call EXCEPT !.name = "parse_log returned",
                            !.before = call.after,
                            !.after = <<[ViewFlush(call.after[1]) EXCEPT !.current = NoBlock]>>]
    /\ UNCHANGED <<liveVars, storeVars, current, inside_md, s_raised, follow,
                   runVars, fileVars, lock, op, snaps, outerVars>>

NextEquiv == EquivLine \/ EquivEndOfInput

SpecEquiv == InitEquiv /\ [][NextEquiv]_vars

\* a list of records as the list of their non-null fields with the numbers
\* they stand for
Records(bs) ==
    [i \in 1..Len(bs) |-> [k \in NonNullFields(bs[i]) |-> Number(bs[i][k])]]

\* C34 as stated: at the end of a log on which no extractor raised, the
\* records md_block_stream yielded and the records parse_log returns are, in
\* order, step by step and field by field, the records in RunState.blocks.
C34_ExtractorsAgree ==
    eof => /\ Records(yielded) = Records(blocks)
           /\ Records(call.after[1].blocks) = Records(blocks)


---------------------------------------------------------------------------
(* SpecPersist: the supervised run of Spec with the streamlit dashboard    *)
(* (a state file is configured) and no file operation failing.  The keys   *)
(* of the curses dashboard, and with them cancellation, do not occur.      *)

InitPersist ==
    /\ Init
    /\ mode = "streamlit"

NextPersist ==
    \/ MainLaunchStreamlit \/ MainMakeRunner \/ MainJoin \/ MainCleanup
    \/ RunnerMarkRunning \/ RunnerPopen \/ RunnerPopenFails \/ RunnerSetPid
    \/ RunnerStartReader \/ RunnerPoll \/ RunnerCheck
    \/ RunnerJoin \/ RunnerWait \/ RunnerFinalize
    \/ RunnerExcept \/ RunnerExceptFinalize
    \/ ReaderRead \/ ReaderEOF \/ ReaderParse \/ ReaderLog
    \/ ChildWrite \/ ChildExit
    \/ \E t \in Threads : WsLock(t) \/ WsOpen(t) \/ WsWrite(t) \/ WsReplace(t)

SpecPersist == InitPersist /\ [][NextPersist]_vars

\* C35: from the return of finalize until main removes the state file, the
\* state file holds a whole snapshot with the terminal status, the return
\* code and the tail, records and series of the RunState; no later step
\* puts an earlier snapshot in its place.
C35_TerminalSnapshotPersists ==
    (Finished("runner") /\ pc["main"] # "exit") =>
        /\ load_state = "snapshot"
        /\ LET s == fs[target_path][1].snap
           IN  /\ TerminalStatus(s.status)
               /\ s.status = status
               /\ s.return_code = return_code
               /\ s.tail = tail
               /\ s.blocks = blocks
               /\ s.metrics = metrics

\* a failed run that printed three lines and closed a record: finalize has
\* returned and the state file holds the three lines and the record
C35_Witness ==
    /\ Finished("runner")
    /\ pc["main"] = "join"
    /\ status = "failed (2)"
    /\ tail = proc.written /\ Len(tail) = MaxChildLines
    /\ blocks # << >>
    /\ fs[target_path][1].snap.blocks = blocks
    /\ fs[target_path][1].snap.tail = tail


---------------------------------------------------------------------------
(* C36: blocks and the metric series *)

\* C36: in every state of the RunState, each series is as long as blocks,
\* and its entry for a record is the record's value for the series' key,
\* None when the record has none.
C36_SeriesMirrorBlocks ==
    \A k \in SeriesKeys :
        /\ Len(metrics[k]) = Len(blocks)
        /\ \A i \in 1..Len(blocks) : metrics[k][i] = Get(blocks[i], k)

\* a closed record with a potential energy and no kinetic energy whose
\* total energy was amended twice by update_latest_block
C36_Witness ==
    /\ fed = <<Marker, Step12, Potential, Marker>>
    /\ call.name = "update_latest_block"
    /\ call.key = "total_energy" /\ call.value = Fin(-8000)
    /\ Get(call.before[1].blocks[1], "total_energy") = Fin(-9000)
    /\ current_block = NoBlock
    /\ metrics["total_energy"] = <<Fin(-8000)>>
    /\ metrics["potential_inst"] = <<Fin(-10500)>>
    /\ metrics["kinetic_inst"] = <<None>>


---------------------------------------------------------------------------
(* C37: how often main launches the supervised binary *)

\* C37 as stated: with an input file and a binary, whatever the dashboard
\* arguments, the streamlit installation and the terminal, main has launched
\* the binary exactly once when it ends, and never launches it twice.
C37_LaunchedExactlyOnce ==
    /\ Len(outcome.launches) <= 1
    /\ (MainExited /\ env.inp = "exists" /\ BinaryExists) =>
           Len(outcome.launches) = 1


---------------------------------------------------------------------------
(* C38: the lifecycle fields of the RunState and of its snapshots *)

\* status, return_code and pid as one lock section leaves them
LifecycleConsistent(s) ==
    /\ s.return_code # << >> <=> TerminalStatus(s.status)
    /\ s.status = "launching" => s.pid = << >>

\* C38: in every state of a supervised run, and in every snapshot taken or
\* written, return_code is set exactly when the status is terminal and pid
\* is not set while the status is launching; and no step resets the cancel
\* flag.
C38_LifecycleFieldsAgree ==
    /\ [](/\ LifecycleConsistent(_snapshot_locked)
          /\ \A t \in Threads :
                writer[t].snap # << >> => LifecycleConsistent(writer[t].snap[1])
          /\ \A name \in {temp_path, target_path} :
                fs[name] # << >> => LifecycleConsistent(fs[name][1].snap))
    /\ [][cancel_requested => cancel_requested']_vars

\* a cancelled run at its end: the flag still set, the status terminal with
\* the return code of the interrupted child, the pid recorded
C38_Witness ==
    /\ cancel_requested
    /\ Len(cancel_log) = MaxCancelCalls
    /\ Finished("runner")
    /\ status = "failed (-2)"
    /\ return_code = Some(-2)
    /\ pid = Some(4242)
    /\ pc["main"] = "exit"


---------------------------------------------------------------------------
(* SpecOpen: the open record against the other threads.  The reader takes  *)
(* a line in three steps, each one lock section or more: append_tail, the  *)
(* is_block_open() of parse_line_for_metrics, and the call that follows    *)
(* it; op holds the line and what is_block_open() returned.  In between,   *)
(* the main thread requests cancellation and takes snapshots, and the      *)
(* runner thread finalizes.                                                *)

MaxOpenLines == 3

OpenLines == {Marker, Step12, ForceEval}

InitOpen == InitLive

\* reader: state.append_tail(raw_line)
OpenAppendTail ==
    \E line \in OpenLines :
        /\ op.pc = "idle"
        /\ ~raised
        /\ Len(fed) < MaxOpenLines
        /\ tail' = DequeAppend(tail, line)
        /\ op' = [pc |-> "check", line |-> <<line>>, out |-> << >>]
        /\ UNCHANGED <<liveVars, status, return_code, pid, done, cancel_requested,
                       state_file, streamVars, runVars, fileVars, lock, snaps, call,
                       outerVars>>

\* reader: state.is_block_open(), a lock section of its own
OpenCheck ==
    /\ op.pc = "check"
    /\ op' = [op EXCEPT !.pc = "act", !.out = <<is_block_open(TheStore)>>]
    /\ UNCHANGED <<liveVars, storeVars, streamVars, runVars, fileVars, lock, snaps,
                   call, outerVars>>

\* parse_line_for_metrics after its is_block_open() returned open
AfterCheck(line, st, open) ==
    IF line.pre # "blank" /\ StartsWithMD(line)
    THEN IF StartsWithMDStars(line)
         THEN IF open
              THEN Outcome(finalize_block(st), FALSE, ~Discarded(st))
              ELSE Outcome(start_block(st), FALSE, FALSE)
         ELSE IF ~open THEN Outcome(st, FALSE, FALSE)
         ELSE BlockLine(line, st)
    ELSE parse_line_for_metrics(line, st)

\* reader: the call that follows the check
OpenAct ==
    /\ op.pc = "act"
    /\ LET out == AfterCheck(op.line[1], TheStore, op.out[1])
       IN  /\ current_block' = out.st.current_block
           /\ blocks' = out.st.blocks
           /\ metrics' = out.st.metrics
           /\ last_step' = out.st.last_step
           /\ raised' = out.raised
    /\ fed' = Append(fed, op.line[1])
    /\ op' = NoOp
    /\ UNCHANGED <<storeVars, streamVars, runVars, fileVars, lock, snaps, call,
                   outerVars>>

\* main, in dashboard_loop: state.request_cancel()
OpenCancel ==
    /\ ~cancel_requested
    /\ cancel_requested' = TRUE
    /\ UNCHANGED <<liveVars, tail, status, return_code, pid, done, state_file,
                   streamVars, runVars, fileVars, lock, op, snaps, call, outerVars>>

\* main, in dashboard_loop: snap = state.snapshot(); at is where the reader
\* was
OpenSnapshot ==
    /\ Len(snaps) < MaxSnaps
    /\ snaps' = Append(snaps, [snap |-> _snapshot_locked, at |-> op.pc])
    /\ UNCHANGED <<liveVars, storeVars, streamVars, runVars, fileVars, lock, op,
                   call, outerVars>>

\* a finalize that also drops the open record
OpenFinalizeClosing ==
    \E rc \in SnapCodes :
        /\ ~done
        /\ finalize(rc)
        /\ current_block' = NoBlock
        /\ UNCHANGED <<metrics, blocks, last_step, fed, raised, tail, pid,
                       cancel_requested, state_file, streamVars, mode, pc, proc, log,
                       signals, cur_line, runner_rc, cancel_log, fileVars, lock, op,
                       snaps, call, outerVars>>

\* runner: state.finalize(return_code)
OpenFinalize ==
    \E rc \in SnapCodes :
        /\ ~done
        /\ finalize(rc)
        /\ UNCHANGED <<liveVars, tail, pid, cancel_requested, state_file, streamVars,
                       mode, pc, proc, log, signals, cur_line, runner_rc, cancel_log,
                       fileVars, lock, op, snaps, call, outerVars>>

NextOpen ==
    \/ OpenAppendTail \/ OpenCheck \/ OpenAct
    \/ OpenCancel \/ OpenSnapshot \/ OpenFinalize

SpecOpen == InitOpen /\ [][NextOpen]_vars

\* C39: when the reader makes the call that follows is_block_open(), the
\* record is open exactly if the check said so, whatever the other threads
\* did in between; and only that call of the reader changes the open
\* record.
C39_OnlyReaderTouchesOpenRecord ==
    /\ [](op.pc = "act" => op.out[1] = is_block_open(TheStore))
    /\ [][current_block' # current_block => op.pc = "act" /\ op'.pc = "idle"]_vars

\* between the check that found the record open and the finalize_block
\* that closed it, a snapshot was taken, cancellation was requested and the
\* run was finalized
C39_Witness ==
    /\ fed = <<Marker, Step12, Marker>>
    /\ op.pc = "idle"
    /\ Len(blocks) = 1
    /\ current_block = NoBlock
    /\ Len(snaps) = 1
    /\ snaps[1].at = "act"
    /\ snaps[1].snap.blocks = << >>
    /\ snaps[1].snap.status = "failed (2)"
    /\ cancel_requested

===========================================================================
